---- MODULE Spec2Model ----
(***************************************************************************)
(* Governance kernel of the jarvis repository: the Enforcement Engine,     *)
(* the Approval Workflow, the Audit Trail and the Mission Control          *)
(* orchestrator that sequences them around a caller-supplied executor.     *)
(*                                                                         *)
(* Every MissionControl.execute call is a process of its own.  The host is *)
(* a single-threaded event loop: a call runs until it awaits, so the steps *)
(* of a call are the segments between its awaits.  Timer callbacks are     *)
(* macrotasks: they run only when no call is in the middle of a chain of   *)
(* already-resolved awaits.                                                *)
(***************************************************************************)
EXTENDS Integers, Sequences, FiniteSets, TLC

(* ------------------------------ bounds --------------------------------- *)

\* number of MissionControl.execute calls made in a behaviour
MaxRequests == 2

\* submissions made to a workflow constructed with a configuration of its own
MaxSubmissions == 1

\* execute calls made on a MissionControl that has event handlers registered
MaxObservedCalls == 1

(* ------------------------- governance types ---------------------------- *)

ClearanceLevel == {"L0", "L1", "L2"}

ActionType ==
  {"READ_PUBLIC", "QUERY_STATUS", "LIST_RESOURCES",
   "MODIFY_CONFIG", "DEPLOY_SERVICE", "MANAGE_SECRETS", "EXECUTE_COMMAND",
   "DESTROY_RESOURCE", "MODIFY_PRODUCTION", "TRANSFER_FUNDS",
   "DELETE_AUDIT_LOG", "ESCALATE_PRIVILEGES", "EXECUTE_ARBITRARY"}

ACTION_CLEARANCE_MAP ==
  [k \in ActionType |->
     IF k \in {"READ_PUBLIC", "QUERY_STATUS", "LIST_RESOURCES"} THEN "L0"
     ELSE IF k \in {"MODIFY_CONFIG", "DEPLOY_SERVICE", "MANAGE_SECRETS",
                    "EXECUTE_COMMAND"} THEN "L1"
     ELSE "L2"]

ApprovalStatus == {"PENDING", "APPROVED", "REJECTED", "EXPIRED", "REVOKED"}

Agents == {"agent-l0", "agent-l1", "agent-l2"}

AgentClearance ==
  [a \in Agents |-> IF a = "agent-l0" THEN "L0"
                    ELSE IF a = "agent-l1" THEN "L1" ELSE "L2"]

\* approver identities a caller may try to register: an id from ApproverIds
\* with a clearance from ApproverLevels
ApproverIds == {"approver-1", "approver-2"}

ApproverLevels == {"L1", "L2"}

RejectionReasons == {"risky"}

\* the (action kind, agent) pairs the execute calls of a behaviour draw from:
\* an L1 action that is allowed, an L2 action by an agent that lacks the
\* clearance, and an L2 action by an L2 agent
ExecInputs ==
  {<<"MODIFY_CONFIG", "agent-l1">>,
   <<"DESTROY_RESOURCE", "agent-l1">>,
   <<"DESTROY_RESOURCE", "agent-l2">>}

\* the minApprovers values a workflow is constructed with
MinApproversChoices == {1, 2}

\* the (action kind, requester) pairs handed to submitForApproval directly
SubmitInputs == {<<"DESTROY_RESOURCE", "agent-l2">>}

\* the (event kind, handler) pairs handed to MissionControl.onEvent
SubscribeInputs ==
  {<<"CLEARANCE_VIOLATION", "recorder">>, <<"ACTION_EXECUTED", "recorder">>,
   <<"ACTION_REQUESTED", "listener">>, <<"ACTION_REJECTED", "listener">>}

\* the fields of a stored audit entry an out-of-band write may change
TamperFields ==
  {"id", "timestamp", "sequenceNumber", "actionRequest.id",
   "actionRequest.actionType", "actionRequest.agentId",
   "actionResult.success", "actionResult.error", "agentIdentity.id",
   "agentIdentity.clearanceLevel", "approvalRequest", "previousHash",
   "entryHash", "immutableProof"}

(* ------------------------------- state --------------------------------- *)

VARIABLES
  requests,          \* action requests created by execute, id = index
  pc,                \* position of each execute call
  pre,               \* PreExecutionResult held by each execute call
  result,            \* what each execute call settled with
  executorInvoked,   \* request ids whose executor has been called
  activeContexts,    \* MissionControl.activeContexts (keys)
  approvalQueue,     \* EnforcementEngine.approvalQueue, id = index
  executedActions,   \* EnforcementEngine.executedActions
  approvedApprovers, \* ApprovalWorkflow.approvedApprovers, insertion order
  pendingApprovals,  \* ApprovalWorkflow.pendingApprovals, id = index
  approvalDecisions, \* ApprovalWorkflow.approvalDecisions, per approval id
  workflowConfig,    \* ApprovalWorkflow.workflowConfig
  entries,           \* AuditTrail.entries
  sequenceCounter,   \* AuditTrail.sequenceCounter
  tampered,          \* whether a stored entry was written out of band
  executionError,    \* request ids whose executor raised
  timers,            \* the host's timer queue: scheduled, not yet fired
  ret,               \* outcome of the last direct API call
  emitted,           \* events emitted by the last step
  eventListeners,    \* the eventListeners maps of the four components
  dispatched,        \* the handler calls made by the last step
  events             \* the array the recorder handler pushes to

vars == <<requests, pc, pre, result, executorInvoked, activeContexts,
          approvalQueue, executedActions, approvedApprovers,
          pendingApprovals, approvalDecisions, workflowConfig, entries,
          sequenceCounter, tampered, executionError, timers, ret, emitted,
          eventListeners, dispatched, events>>

mcVars == <<requests, pc, pre, result, executorInvoked, activeContexts,
            executionError>>
enfVars == <<approvalQueue, executedActions>>
wfVars == <<approvedApprovers, pendingApprovals, approvalDecisions,
            workflowConfig>>
auditVars == <<entries, sequenceCounter, tampered>>

Requests == 1..MaxRequests

(* ------------------------------ helpers -------------------------------- *)

Range(s) == {s[i] : i \in DOMAIN s}

RECURSIVE FilterSeq(_, _)
\* Array.prototype.filter over the indices 1..Len(s): the ids kept, in order
FilterSeq(s, keep) ==
  IF s = <<>> THEN <<>>
  ELSE LET n == Len(s)
           front == FilterSeq(SubSeq(s, 1, n - 1), keep)
       IN IF s[n] \in keep THEN Append(front, s[n]) ELSE front

Min(a, b) == IF a <= b THEN a ELSE b

NoRet == [op |-> "none"]

Event(source, type, severity, about, detail) ==
  [source |-> source, type |-> type, severity |-> severity,
   about |-> about, detail |-> detail]

(* --------------------------- configuration ----------------------------- *)

DEFAULT_GOVERNANCE_CONFIG ==
  [l2ApprovalTimeoutMs |-> 300000, requiredApprovers |-> 1,
   autoRejectOnTimeout |-> TRUE, auditRetentionDays |-> 365,
   hashAlgorithm |-> "SHA-256", enableImmutableAudit |-> TRUE]

\* the defaults the ApprovalWorkflow constructor starts from
defaultWorkflowConfig ==
  [minApprovers |-> 1, maxApprovers |-> 3, requireUnanimous |-> FALSE,
   escalationTimeoutMs |-> 300000]

(* ----------------------------- Audit Trail ----------------------------- *)

\* The digest of a string is modelled by the data that was serialised into
\* it: two digests are equal exactly when the serialised fields are equal.
hash(data) == [digest |-> data]

genesisHash ==
  hash([algorithm |-> DEFAULT_GOVERNANCE_CONFIG.hashAlgorithm,
        retention |-> DEFAULT_GOVERNANCE_CONFIG.auditRetentionDays,
        created |-> 0])

computeEntryHash(entry) ==
  hash([id |-> entry.id,
        timestamp |-> entry.timestamp,
        sequenceNumber |-> entry.sequenceNumber,
        actionRequestId |-> entry.actionRequest.id,
        actionResultSuccess |-> entry.actionResult.success,
        agentId |-> entry.agentIdentity.id,
        previousHash |-> entry.previousHash])

computeImmutableProof(entry) ==
  hash([entryHash |-> entry.entryHash,
        previousHash |-> entry.previousHash,
        sequenceNumber |-> entry.sequenceNumber,
        timestamp |-> entry.timestamp])

\* a counter read without the pre-increment
nextSequenceNumber_NoIncrement(counter) == counter

\* record(): the sequence number allocated to the new entry
nextSequenceNumber(counter) == counter + 1

\* every entry linked to the genesis hash
previousHashOf_AlwaysGenesis(es) == genesisHash

\* record(): the hash the new entry links to
previousHashOf(es) ==
  IF es = <<>> THEN genesisHash ELSE es[Len(es)].entryHash

\* record(): the entry appended for (actionRequest, actionResult, agent,
\* approvalRequest); the entry id is fresh, the timestamp is the time of
\* the append (appends are ordered, so the position stands for both)
newEntry(es, counter, actionRequest, actionResult, agentIdentity, approvalRequest) ==
  LET base == [id |-> Len(es) + 1,
               timestamp |-> Len(es) + 1,
               sequenceNumber |-> nextSequenceNumber(counter),
               actionRequest |-> actionRequest,
               actionResult |-> actionResult,
               agentIdentity |-> agentIdentity,
               approvalRequest |-> approvalRequest,
               previousHash |-> previousHashOf(es),
               entryHash |-> hash(<<>>),
               immutableProof |-> hash(<<>>)]
      hashed == [base EXCEPT !.entryHash = computeEntryHash(base)]
  IN [hashed EXCEPT !.immutableProof = computeImmutableProof(hashed)]

\* the event record() emits after the append
recordEvent(entry) ==
  Event("audit",
        IF entry.actionResult.success THEN "ACTION_EXECUTED" ELSE "ACTION_FAILED",
        IF entry.actionResult.success THEN "info" ELSE "warning",
        entry.id, <<entry.actionRequest.actionType>>)

\* the per-entry checks with the proof compared before the entry hash
entryCheck_ProofFirst(es, i) ==
  LET entry == es[i]
      expectedPreviousHash == IF i = 1 THEN genesisHash ELSE es[i - 1].entryHash
  IN IF entry.previousHash # expectedPreviousHash THEN "PREVIOUS_HASH_MISMATCH"
     ELSE IF entry.immutableProof # computeImmutableProof(entry) THEN "PROOF_MISMATCH"
     ELSE IF entry.entryHash # computeEntryHash(entry) THEN "ENTRY_HASH_MISMATCH"
     ELSE ""

\* verifyChain(): the first failing check of entry i, "" when all pass
entryCheck(es, i) ==
  LET entry == es[i]
      expectedPreviousHash == IF i = 1 THEN genesisHash ELSE es[i - 1].entryHash
  IN IF entry.previousHash # expectedPreviousHash THEN "PREVIOUS_HASH_MISMATCH"
     ELSE IF entry.entryHash # computeEntryHash(entry) THEN "ENTRY_HASH_MISMATCH"
     ELSE IF entry.immutableProof # computeImmutableProof(entry) THEN "PROOF_MISMATCH"
     ELSE ""

\* verifyChain(): index of the first entry that fails a check, 0 when none
firstFailure(es) ==
  IF \E i \in DOMAIN es : entryCheck(es, i) # ""
    THEN CHOOSE i \in DOMAIN es :
           /\ entryCheck(es, i) # ""
           /\ \A j \in 1..(i - 1) : entryCheck(es, j) = ""
    ELSE 0

verifyChainValue(es) == firstFailure(es) = 0

verifyChainEvents(es) ==
  IF firstFailure(es) = 0 THEN <<>>
  ELSE <<Event("audit", "AUDIT_TAMPER_DETECTED", "critical",
               es[firstFailure(es)].id,
               <<entryCheck(es, firstFailure(es))>>)>>

(* -------------------------- Enforcement Engine ------------------------- *)

levels == <<"L0", "L1", "L2">>

indexOf(s, x) == CHOOSE i \in DOMAIN s : s[i] = x

\* a comparison that accepts the required level only
hasSufficientClearance_ExactLevel(agentLevel, requiredLevel) ==
  indexOf(levels, agentLevel) = indexOf(levels, requiredLevel)

hasSufficientClearance(agentLevel, requiredLevel) ==
  indexOf(levels, agentLevel) >= indexOf(levels, requiredLevel)

\* a createApprovalRequest whose record starts out APPROVED
createApprovalRequest_PreApproved(approvalId, actionRequest, agentIdentity) ==
  [id |-> approvalId,
   actionRequestId |-> actionRequest.id,
   status |-> "APPROVED",
   requestedBy |-> agentIdentity.id,
   approvers |-> <<>>,
   rejectionReason |-> ""]

\* createApprovalRequest(): the record put into approvalQueue under a new id
createApprovalRequest(approvalId, actionRequest, agentIdentity) ==
  [id |-> approvalId,
   actionRequestId |-> actionRequest.id,
   status |-> "PENDING",
   requestedBy |-> agentIdentity.id,
   approvers |-> <<>>,
   rejectionReason |-> ""]

\* validateAction(): the EnforcementResult; approvalRequest is the id of the
\* approval record created for an L2 action, 0 when there is none
validateAction(actionRequest, agentIdentity, approvalId) ==
  LET requiredClearance == ACTION_CLEARANCE_MAP[actionRequest.actionType]
      agentClearance == agentIdentity.clearanceLevel
  IN IF ~hasSufficientClearance(agentClearance, requiredClearance)
       THEN [allowed |-> FALSE,
             requiredClearance |-> requiredClearance,
             agentClearance |-> agentClearance,
             requiresApproval |-> FALSE,
             approvalRequest |-> 0,
             reason |-> <<"Insufficient clearance: requires", requiredClearance,
                          "agent has", agentClearance>>]
     ELSE IF requiredClearance = "L2"
       THEN [allowed |-> TRUE,
             requiredClearance |-> requiredClearance,
             agentClearance |-> agentClearance,
             requiresApproval |-> TRUE,
             approvalRequest |-> approvalId,
             reason |-> <<"L2 action requires human approval">>]
     ELSE [allowed |-> TRUE,
           requiredClearance |-> requiredClearance,
           agentClearance |-> agentClearance,
           requiresApproval |-> FALSE,
           approvalRequest |-> 0,
           reason |-> <<>>]

\* a validateAction that rejects without emitting
validateEvents_NoViolationEvent(actionRequest, agentIdentity, er) ==
  IF er.allowed /\ er.requiresApproval
    THEN <<Event("enforcement", "ACTION_REQUESTED", "info",
                 actionRequest.id, <<actionRequest.actionType>>)>>
  ELSE <<>>

\* events validateAction() emits (createApprovalRequest included)
validateEvents(actionRequest, agentIdentity, er) ==
  IF ~er.allowed
    THEN <<Event("enforcement", "CLEARANCE_VIOLATION", "critical",
                 actionRequest.id, <<er.requiredClearance, er.agentClearance>>)>>
  ELSE IF er.requiresApproval
    THEN <<Event("enforcement", "ACTION_REQUESTED", "info",
                 actionRequest.id, <<actionRequest.actionType>>)>>
  ELSE <<>>

\* no gate at all: every approval status continues
approvalGate_NoGate(approval) == <<>>

\* a gate that lets a PENDING approval through
approvalGate_PendingPasses(approval) ==
  IF approval.status = "REJECTED"
    THEN <<"Approval rejected:", approval.rejectionReason>>
  ELSE IF approval.status = "EXPIRED" THEN <<"Approval request expired">>
  ELSE <<>>

\* preExecute(): the approval gate, by the status of the approval record
approvalGate(approval) ==
  IF approval.status = "PENDING" THEN <<"Waiting for L2 approval">>
  ELSE IF approval.status = "REJECTED"
    THEN <<"Approval rejected:", approval.rejectionReason>>
  ELSE IF approval.status = "EXPIRED" THEN <<"Approval request expired">>
  ELSE <<>>

\* a preExecute without the check for an id already executed
preExecute_NoIdempotencyCheck(er, actionRequest, queue, executed) ==
  IF ~er.allowed
    THEN [proceed |-> FALSE, reason |-> er.reason, enforcementResult |-> er]
  ELSE IF er.requiresApproval /\ er.approvalRequest # 0
          /\ approvalGate(queue[er.approvalRequest]) # <<>>
    THEN [proceed |-> FALSE,
          reason |-> approvalGate(queue[er.approvalRequest]),
          enforcementResult |-> er]
  ELSE [proceed |-> TRUE, reason |-> <<>>, enforcementResult |-> er]

\* preExecute(): the PreExecutionResult, given the EnforcementResult of
\* validateAction and the engine's state after it
preExecute(er, actionRequest, queue, executed) ==
  IF ~er.allowed
    THEN [proceed |-> FALSE, reason |-> er.reason, enforcementResult |-> er]
  ELSE IF actionRequest.id \in executed
    THEN [proceed |-> FALSE,
          reason |-> <<"Action already executed (idempotency check)">>,
          enforcementResult |-> er]
  ELSE IF er.requiresApproval /\ er.approvalRequest # 0
          /\ approvalGate(queue[er.approvalRequest]) # <<>>
    THEN [proceed |-> FALSE,
          reason |-> approvalGate(queue[er.approvalRequest]),
          enforcementResult |-> er]
  ELSE [proceed |-> TRUE, reason |-> <<>>, enforcementResult |-> er]

\* a postExecute that marks only successful executions
postExecute_SuccessOnly(executed, actionRequest, failed) ==
  IF failed THEN executed ELSE executed \cup {actionRequest.id}

\* postExecute(): the request id is marked executed, whatever the outcome
postExecute(executed, actionRequest, failed) == executed \cup {actionRequest.id}

\* postExecute(): the event emitted once the request id is marked executed
postExecuteEvent(actionRequest, failed) ==
  IF failed
    THEN Event("enforcement", "ACTION_FAILED", "warning", actionRequest.id,
               <<"Execution failed">>)
    ELSE Event("enforcement", "ACTION_EXECUTED", "info", actionRequest.id,
               <<actionRequest.actionType>>)

\* the requiredApprovers values a MissionControl is constructed with
RequiredApproversChoices == {1, 2}

\* MissionControl constructor: { ...DEFAULT_GOVERNANCE_CONFIG, ...config }
governanceConfigWith(requiredApprovers) ==
  [DEFAULT_GOVERNANCE_CONFIG EXCEPT !.requiredApprovers = requiredApprovers]

\* MissionControl constructor: new ApprovalWorkflow(this.config) passes no
\* workflow configuration, and the ApprovalWorkflow constructor reads none
\* of its fields from the governance configuration
workflowConfigOf(config) == defaultWorkflowConfig

(* --------------------------- Approval Workflow ------------------------- *)

registryIds(registry) == [i \in DOMAIN registry |-> registry[i].id]

\* selectApprovers(): the first min(minApprovers, size) ids in Map order
selectApprovers(registry) ==
  SubSeq(registryIds(registry), 1,
         Min(workflowConfig.minApprovers, Len(registry)))

\* submitForApproval(): the request stored under the new approval id
newApprovalRequest(approvalId, actionRequest, requester, registry) ==
  [id |-> approvalId,
   actionRequestId |-> actionRequest.id,
   status |-> "PENDING",
   requestedBy |-> requester.id,
   approvers |-> selectApprovers(registry),
   approvedBy |-> "",
   rejectedBy |-> "",
   rejectionReason |-> ""]

\* getPendingApprovals(): ids of the requests whose status is PENDING
getPendingApprovals(approvals) ==
  FilterSeq([i \in DOMAIN approvals |-> i],
            {i \in DOMAIN approvals : approvals[i].status = "PENDING"})

(* ------------------------------- payloads ------------------------------ *)

\* the top-level keys of the key-value payloads callers pass
PayloadKeys == {"valid", "data", "__proto__", "constructor", "prototype"}

PayloadValues == {"a", "b"}

\* the scalar payloads callers pass: typeof payload !== 'object', or null
ScalarPayloads == {"null", "undefined", "false", "0", "empty string", "text", "7"}

\* A payload is a scalar or an object with own enumerable keys.
Payloads ==
  {[kind |-> "scalar", value |-> v, props |-> <<>>] : v \in ScalarPayloads}
    \cup
  UNION {{[kind |-> "object", value |-> "", props |-> f] : f \in [ks -> PayloadValues]} :
           ks \in SUBSET PayloadKeys}

\* JavaScript truthiness of a payload: every object is truthy
truthy(payload) ==
  \/ payload.kind = "object"
  \/ payload.value \notin {"null", "undefined", "false", "0", "empty string"}

\* delete obj[field]
deleteField(props, field) == [k \in DOMAIN props \ {field} |-> props[k]]

dangerousFields == <<"__proto__", "constructor", "prototype">>

RECURSIVE deleteFields(_, _)
\* for (const field of dangerousFields) delete sanitized[field]
deleteFields(props, fields) ==
  IF fields = <<>> THEN props
  ELSE deleteFields(deleteField(props, Head(fields)), Tail(fields))

\* a sanitizePayload that deletes the fields from the caller's object
sanitizePayload_InPlace(payload) ==
  LET stripped == [payload EXCEPT !.props = deleteFields(@, dangerousFields)]
  IN IF payload.kind # "object"
       THEN [caller |-> payload, modified |-> payload]
       ELSE [caller |-> stripped, modified |-> stripped]

\* sanitizePayload(): a scalar is returned as it is; an object is copied
\* with { ...payload } and the dangerous fields are deleted from the copy.
\* `caller` is the caller's object after the call.
sanitizePayload(payload) ==
  IF payload.kind # "object"
    THEN [caller |-> payload, modified |-> payload]
    ELSE [caller |-> payload,
          modified |-> [payload EXCEPT !.props = deleteFields(@, dangerousFields)]]

\* execute(): executor(preResult.modifiedPayload || payload)
executorArgument(modifiedPayload, payload) ==
  IF truthy(modifiedPayload) THEN modifiedPayload ELSE payload

(* ------------------------------- events -------------------------------- *)

Components == {"missioncontrol", "audit", "enforcement", "workflow"}

GovernanceEventType ==
  {"ACTION_REQUESTED", "ACTION_APPROVED", "ACTION_REJECTED", "ACTION_EXECUTED",
   "ACTION_FAILED", "CLEARANCE_VIOLATION", "APPROVAL_TIMEOUT",
   "AUDIT_TAMPER_DETECTED"}

\* The handlers callers register.  "recorder" pushes each event it is given
\* to an array of its own (as the handlers of the test suites do),
\* "listener" looks at the event and returns, "thrower" raises,
\* "registrar" registers "listener" on the engine for the kind of the event
\* it is given, and "deregistrar" calls the unregister handle the engine
\* returned for "listener" and that kind.
HandlerIds == {"recorder", "listener", "thrower", "registrar", "deregistrar"}

throws(h) == h = "thrower"

\* the handlers registered directly on the enforcement engine
DispatchHandlers == {"listener", "thrower", "registrar", "deregistrar"}

\* Set.prototype.add: a handler already in the set keeps its place
setAdd(handlers, h) ==
  IF h \in Range(handlers) THEN handlers ELSE Append(handlers, h)

\* Set.prototype.delete
setDelete(handlers, h) == SelectSeq(handlers, LAMBDA g : g # h)

\* onEvent() of a component: the handler joins the Set kept for the kind
onEventOf(listeners, component, type, h) ==
  [listeners EXCEPT ![component][type] = setAdd(@, h)]

\* the unregister handle onEvent() of a component returns
unregisterOf(listeners, component, type, h) ==
  [listeners EXCEPT ![component][type] = setDelete(@, h)]

\* an unregister handle that leaves the subcomponents subscribed
unsubscribe_OrchestratorOnly(listeners, type, h) ==
  unregisterOf(listeners, "missioncontrol", type, h)

\* the unregister handle MissionControl.onEvent() returns: the handler
\* leaves the orchestrator's Set and the three handles are called
unsubscribe(listeners, type, h) ==
  unregisterOf(unregisterOf(unregisterOf(unregisterOf(listeners,
    "missioncontrol", type, h), "audit", type, h), "enforcement", type, h),
    "workflow", type, h)

\* MissionControl.onEvent(): the handler joins the orchestrator's Set and
\* the Set of each of the three subcomponents
subscribe(listeners, type, h) ==
  onEventOf(onEventOf(onEventOf(onEventOf(listeners,
    "missioncontrol", type, h), "audit", type, h), "enforcement", type, h),
    "workflow", type, h)

\* what the call of handler h with the event does to the registries
handlerEffect(listeners, h, event) ==
  IF h = "registrar" THEN onEventOf(listeners, "enforcement", event.type, "listener")
  ELSE IF h = "deregistrar"
    THEN unregisterOf(listeners, "enforcement", event.type, "listener")
  ELSE listeners

\* an emitEvent without the try/catch around the call of a handler
continues_Uncaught(h) == ~throws(h)

\* emitEvent(): the exception of a handler is caught and logged, and the
\* iteration goes on with the next handler
continues(h) == TRUE

\* The entry list of the Set an iteration is running over, after a handler
\* changed the Set from `before` to `after`: a deleted handler leaves a hole
\* ("") and an added one is appended.
slotsAfter(slots, before, after) ==
  [i \in DOMAIN slots |-> IF slots[i] \in Range(after) THEN slots[i] ELSE ""]
    \o SelectSeq(after, LAMBDA h : h \notin Range(before))

RECURSIVE forEach(_, _, _, _)
\* handlers.forEach(h => ...) of emitEvent(), from entry i on: the iteration
\* runs over the live Set, so it skips the entries deleted before it reaches
\* them and reaches the entries appended while it runs
forEach(listeners, event, slots, i) ==
  IF i > Len(slots)
    THEN [listeners |-> listeners, calls |-> <<>>, uncaught |-> FALSE]
  ELSE IF slots[i] = "" THEN forEach(listeners, event, slots, i + 1)
  ELSE LET h == slots[i]
           component == event.source
           after == handlerEffect(listeners, h, event)
           call == <<[handler |-> h, event |-> event]>>
           rest == forEach(after, event,
                           slotsAfter(slots, listeners[component][event.type],
                                      after[component][event.type]),
                           i + 1)
       IN IF continues(h)
            THEN [listeners |-> rest.listeners, calls |-> call \o rest.calls,
                  uncaught |-> rest.uncaught]
            ELSE [listeners |-> after, calls |-> call, uncaught |-> TRUE]

\* emitEvent() of the component that is the source of the event
emitEvent(listeners, event) ==
  forEach(listeners, event, listeners[event.source][event.type], 1)

RECURSIVE emitAll(_, _)
\* the emitEvent() calls of one step, in the order of the events
emitAll(listeners, evs) ==
  IF evs = <<>>
    THEN [listeners |-> listeners, calls |-> <<>>, uncaught |-> FALSE]
  ELSE LET first == emitEvent(listeners, Head(evs))
           rest == emitAll(first.listeners, Tail(evs))
       IN [listeners |-> rest.listeners, calls |-> first.calls \o rest.calls,
           uncaught |-> first.uncaught \/ rest.uncaught]

\* the events a sequence of handler calls hands to handler h, in order
handedTo(calls, h) ==
  LET mine == SelectSeq(calls, LAMBDA c : c.handler = h)
  IN [k \in DOMAIN mine |-> mine[k].event]

\* The events of a step are emitted while the step runs: the handlers are
\* called synchronously, inside the operation that emits.
Dispatch ==
  LET out == emitAll(eventListeners, emitted')
  IN /\ eventListeners' = out.listeners
     /\ dispatched' = [calls |-> out.calls, uncaught |-> out.uncaught]
     /\ events' = events \o handedTo(out.calls, "recorder")

NoDispatch == [calls |-> <<>>, uncaught |-> FALSE]

\* MissionControl.onEvent(type, handler)
OnEvent(type, h) ==
  /\ eventListeners' = subscribe(eventListeners, type, h)
  /\ dispatched' = NoDispatch
  /\ emitted' = <<>>
  /\ ret' = NoRet
  /\ UNCHANGED <<mcVars, enfVars, wfVars, timers, auditVars, events>>

\* the call of the unregister handle MissionControl.onEvent(type, handler)
\* returned
Unsubscribe(type, h) ==
  /\ eventListeners' = unsubscribe(eventListeners, type, h)
  /\ dispatched' = NoDispatch
  /\ emitted' = <<>>
  /\ ret' = NoRet
  /\ UNCHANGED <<mcVars, enfVars, wfVars, timers, auditVars, events>>

\* EnforcementEngine.onEvent(type, handler)
EngineOnEvent(type, h) ==
  /\ eventListeners' = onEventOf(eventListeners, "enforcement", type, h)
  /\ dispatched' = NoDispatch
  /\ emitted' = <<>>
  /\ ret' = NoRet
  /\ UNCHANGED <<mcVars, enfVars, wfVars, timers, auditVars, events>>

(* ------------------------------- Init ---------------------------------- *)

NoPre ==
  [proceed |-> FALSE, reason |-> <<>>,
   enforcementResult |-> [allowed |-> FALSE, requiredClearance |-> "L0",
                          agentClearance |-> "L0", requiresApproval |-> FALSE,
                          approvalRequest |-> 0, reason |-> <<>>]]

NoResult ==
  [type |-> "none", approvalId |-> 0, code |-> "", message |-> <<>>,
   auditEntry |-> 0]

\* the components as their constructors leave them
InitComponents ==
  /\ requests = <<>>
  /\ pc = [r \in Requests |-> "idle"]
  /\ pre = [r \in Requests |-> NoPre]
  /\ result = [r \in Requests |-> NoResult]
  /\ executorInvoked = {}
  /\ activeContexts = {}
  /\ executionError = {}
  /\ approvalQueue = <<>>
  /\ executedActions = {}
  /\ timers = <<>>
  /\ approvedApprovers = <<>>
  /\ pendingApprovals = <<>>
  /\ approvalDecisions = <<>>
  /\ entries = <<>>
  /\ sequenceCounter = 0
  /\ tampered = FALSE
  /\ ret = NoRet
  /\ emitted = <<>>
  /\ eventListeners = [c \in Components |-> [t \in GovernanceEventType |-> <<>>]]
  /\ dispatched = NoDispatch
  /\ events = <<>>

\* new MissionControl(): the workflow is constructed without a workflow
\* configuration of its own and keeps the defaults
Init ==
  /\ InitComponents
  /\ workflowConfig = defaultWorkflowConfig

\* new ApprovalWorkflow(config, workflowConfig): the given fields replace
\* the defaults
InitConfigured ==
  /\ InitComponents
  /\ workflowConfig \in
       {[defaultWorkflowConfig EXCEPT !.minApprovers = m, !.requireUnanimous = u] :
          m \in MinApproversChoices, u \in BOOLEAN}

(* --------------------------- Mission Control --------------------------- *)

agentIdentityOf(agent) == [id |-> agent, clearanceLevel |-> AgentClearance[agent]]

\* an identifier minted twice
uuidv4_Repeats(n) == 1

\* uuidv4(): the identifier minted for the n-th action request, distinct
\* from every identifier minted before
uuidv4(n) == n

\* an action result that reports success whatever the executor did
actionResultOf_AlwaysSuccess(actionRequest, agentId, failed) ==
  [success |-> TRUE, requestId |-> actionRequest.id, error |-> <<>>,
   executedBy |-> agentId]

\* execute(): the ActionResult built in the finally block
actionResultOf(actionRequest, agentId, failed) ==
  [success |-> ~failed, requestId |-> actionRequest.id,
   error |-> IF failed THEN <<"Execution failed">> ELSE <<>>,
   executedBy |-> agentId]

\* execute(), up to the return of preExecute: the action request is created
\* and the enforcement engine validates it
ExecuteBegin(r, actionType, agent) ==
  LET actionRequest == [id |-> uuidv4(r), actionType |-> actionType, agentId |-> agent]
      agentIdentity == agentIdentityOf(agent)
      approvalId == Len(approvalQueue) + 1
      er == validateAction(actionRequest, agentIdentity, approvalId)
      queue == IF er.requiresApproval
                 THEN Append(approvalQueue,
                             createApprovalRequest(approvalId, actionRequest, agentIdentity))
                 ELSE approvalQueue
  IN /\ pc[r] = "idle"
     /\ r = Len(requests) + 1
     /\ requests' = Append(requests, actionRequest)
     /\ approvalQueue' = queue
     /\ timers' = IF er.requiresApproval
                    THEN Append(timers, [kind |-> "expiry", id |-> approvalId])
                    ELSE timers
     /\ pre' = [pre EXCEPT ![r] = preExecute(er, actionRequest, queue, executedActions)]
     /\ pc' = [pc EXCEPT ![r] = "preDone"]
     /\ emitted' = validateEvents(actionRequest, agentIdentity, er)
     /\ ret' = NoRet
     /\ UNCHANGED <<result, executorInvoked, activeContexts, executionError,
                    executedActions, wfVars, auditVars>>
     /\ Dispatch

\* execute(): preExecute did not proceed and the approval record it created
\* is PENDING
approvalIsPending(r) ==
  /\ pre[r].enforcementResult.requiresApproval
  /\ pre[r].enforcementResult.approvalRequest # 0
  /\ approvalQueue[pre[r].enforcementResult.approvalRequest].status = "PENDING"

\* a submitForApproval that accepts a submission whatever the registry holds
submitError_AcceptsEmpty(registry) == ""

\* submitForApproval(): the guard that raises, "" when a request is stored
submitError(registry) ==
  IF registry = <<>> THEN "NoApproversRegistered" ELSE ""

\* submitForApproval(): what the call does to the workflow
submitForApproval(actionRequest, requester) ==
  LET approvalId == Len(pendingApprovals) + 1
  IN IF submitError(approvedApprovers) # ""
       THEN /\ emitted' = <<>>
            /\ UNCHANGED <<wfVars, timers>>
       ELSE /\ pendingApprovals' = Append(pendingApprovals,
                  newApprovalRequest(approvalId, actionRequest, requester,
                                     approvedApprovers))
            /\ approvalDecisions' = Append(approvalDecisions, <<>>)
            /\ timers' = Append(timers, [kind |-> "escalation", id |-> approvalId])
            /\ emitted' = <<Event("workflow", "ACTION_REQUESTED", "info",
                                  approvalId, <<actionRequest.actionType>>)>>
            /\ UNCHANGED <<approvedApprovers, workflowConfig>>

\* execute(): the pending branch, submitForApproval and the pending reference
\* (the error of submitForApproval is raised to the caller as it is)
ExecuteSubmit(r) ==
  /\ pc[r] = "preDone"
  /\ ~pre[r].proceed
  /\ approvalIsPending(r)
  /\ submitForApproval(requests[r], agentIdentityOf(requests[r].agentId))
  /\ result' = [result EXCEPT ![r] =
        IF submitError(approvedApprovers) # ""
          THEN [NoResult EXCEPT !.type = "error", !.code = "Error",
                                !.message = <<"No L2 approvers registered">>]
          ELSE [NoResult EXCEPT !.type = "pending",
                                !.approvalId = Len(pendingApprovals) + 1]]
  /\ pc' = [pc EXCEPT ![r] = "done"]
  /\ ret' = NoRet
  /\ UNCHANGED <<requests, pre, executorInvoked, activeContexts,
                 executionError, enfVars, auditVars>>
  /\ Dispatch

\* the text `reason || fallback` evaluates to
orElse(reason, fallback) == IF reason = <<>> THEN <<fallback>> ELSE reason

\* execute(): the error code of the MissionControlError of the rejected branch
rejectionCode(er) == "ENFORCEMENT_REJECTED"

\* execute(): the rejected branch, a failed audit entry and the error
ExecuteReject(r) ==
  LET er == pre[r].enforcementResult
      actionResult == [success |-> FALSE, requestId |-> r,
                       error |-> orElse(er.reason, "Enforcement rejected"),
                       executedBy |-> ""]
      entry == newEntry(entries, sequenceCounter, requests[r], actionResult,
                        agentIdentityOf(requests[r].agentId), er.approvalRequest)
  IN /\ pc[r] = "preDone"
     /\ ~pre[r].proceed
     /\ ~approvalIsPending(r)
     /\ entries' = Append(entries, entry)
     /\ sequenceCounter' = nextSequenceNumber(sequenceCounter)
     /\ emitted' = <<recordEvent(entry)>>
     /\ result' = [result EXCEPT ![r] =
           [NoResult EXCEPT !.type = "error", !.code = rejectionCode(er),
                            !.message = orElse(er.reason, "Action rejected by governance"),
                            !.auditEntry = Len(entries) + 1]]
     /\ pc' = [pc EXCEPT ![r] = "done"]
     /\ ret' = NoRet
     /\ UNCHANGED <<requests, pre, executorInvoked, activeContexts,
                    executionError, enfVars, wfVars, timers, tampered>>
     /\ Dispatch

\* execute(): preExecute proceeded, the context is registered and the
\* executor is called
ExecuteInvoke(r) ==
  /\ pc[r] = "preDone"
  /\ pre[r].proceed
  /\ activeContexts' = activeContexts \cup {r}
  /\ executorInvoked' = executorInvoked \cup {r}
  /\ pc' = [pc EXCEPT ![r] = "executing"]
  /\ emitted' = <<>>
  /\ ret' = NoRet
  /\ UNCHANGED <<requests, pre, result, executionError, enfVars, wfVars,
                 timers, auditVars>>
  /\ Dispatch

\* a context deleted only when the executor resolved
deleteContext_SuccessOnly(contexts, r, failed) ==
  IF failed THEN contexts ELSE contexts \ {r}

\* execute(): the finally block deletes the context of the request, whether
\* the executor resolved or raised
deleteContext(contexts, r, failed) == contexts \ {r}

\* getActiveContexts(): a snapshot of the records held
getActiveContexts(contexts) == contexts

\* the executor settles (it resolves, or raises when failed): the finally
\* block deletes the context and calls postExecute
ExecutorSettle(r, failed) ==
  /\ pc[r] = "executing"
  /\ activeContexts' = deleteContext(activeContexts, r, failed)
  /\ executionError' = IF failed THEN executionError \cup {r} ELSE executionError
  /\ executedActions' = postExecute(executedActions, requests[r], failed)
  /\ emitted' = <<postExecuteEvent(requests[r], failed)>>
  /\ pc' = [pc EXCEPT ![r] = "postDone"]
  /\ ret' = NoRet
  /\ UNCHANGED <<requests, pre, result, executorInvoked, approvalQueue,
                 wfVars, timers, auditVars>>
  /\ Dispatch

\* execute(): the audit append after postExecute, then the success tuple or
\* the EXECUTION_FAILED error
ExecuteRecord(r) ==
  LET failed == r \in executionError
      actionResult == actionResultOf(requests[r], requests[r].agentId, failed)
      entry == newEntry(entries, sequenceCounter, requests[r], actionResult,
                        agentIdentityOf(requests[r].agentId),
                        pre[r].enforcementResult.approvalRequest)
  IN /\ pc[r] = "postDone"
     /\ entries' = Append(entries, entry)
     /\ sequenceCounter' = nextSequenceNumber(sequenceCounter)
     /\ emitted' = <<recordEvent(entry)>>
     /\ result' = [result EXCEPT ![r] =
           IF failed
             THEN [NoResult EXCEPT !.type = "error", !.code = "EXECUTION_FAILED",
                                   !.message = <<"Execution failed">>,
                                   !.auditEntry = Len(entries) + 1]
             ELSE [NoResult EXCEPT !.type = "success",
                                   !.auditEntry = Len(entries) + 1]]
     /\ pc' = [pc EXCEPT ![r] = "done"]
     /\ ret' = NoRet
     /\ UNCHANGED <<requests, pre, executorInvoked, activeContexts,
                    executionError, enfVars, wfVars, timers, tampered>>
     /\ Dispatch

(* ------------------------ Approval Workflow calls ---------------------- *)

\* registerApprover(): Map.set keeps the position of a key already present
mapSet(registry, approver) ==
  IF \E i \in DOMAIN registry : registry[i].id = approver.id
    THEN [i \in DOMAIN registry |->
            IF registry[i].id = approver.id THEN approver ELSE registry[i]]
    ELSE Append(registry, approver)

\* unregisterApprover(): Map.delete
mapDelete(registry, approverId) ==
  LET keep == {i \in DOMAIN registry : registry[i].id # approverId}
      idx == FilterSeq([i \in DOMAIN registry |-> i], keep)
  IN [k \in DOMAIN idx |-> registry[idx[k]]]

\* a registerApprover that accepts an approver of any clearance
registerError_AnyLevel(level) == ""

\* registerApprover(): the guard that raises, "" when the approver is stored
registerError(level) ==
  IF level # "L2" THEN "InsufficientApproverClearance" ELSE ""

\* a direct call that raises changes no state of the component; a call that
\* returns resets the record of the last observed outcome
RegisterApprover(approverId, level) ==
  /\ approvedApprovers' =
       IF registerError(level) # "" THEN approvedApprovers
       ELSE mapSet(approvedApprovers, [id |-> approverId, clearanceLevel |-> level])
  /\ emitted' = <<>>
  /\ ret' = NoRet
  /\ UNCHANGED <<mcVars, enfVars, auditVars, timers, pendingApprovals,
                 approvalDecisions, workflowConfig>>
  /\ Dispatch

UnregisterApprover(approverId) ==
  /\ approvedApprovers' = mapDelete(approvedApprovers, approverId)
  /\ emitted' = <<>>
  /\ ret' = NoRet
  /\ UNCHANGED <<mcVars, enfVars, auditVars, timers, pendingApprovals,
                 approvalDecisions, workflowConfig>>
  /\ Dispatch

\* a threshold met by the first affirmative decision
checkApprovalThreshold_FirstApproval(decisions, approval) ==
  \E i \in DOMAIN decisions : decisions[i].approved

\* checkApprovalThreshold(), on the decisions recorded for the request
checkApprovalThreshold(decisions, approval) ==
  LET approvals == {i \in DOMAIN decisions : decisions[i].approved}
  IN IF workflowConfig.requireUnanimous
       THEN Cardinality(approvals) = Len(approval.approvers)
       ELSE Cardinality(approvals) >= workflowConfig.minApprovers

\* a guard without the check for an earlier decision of the approver
approveError_NoDuplicateCheck(approvals, registry, decisions, approvalId, approverId) ==
  IF approvalId \notin DOMAIN approvals THEN "NotFound"
  ELSE IF approvals[approvalId].status # "PENDING" THEN "AlreadyDecided"
  ELSE IF approverId \notin Range(approvals[approvalId].approvers) THEN "Unauthorized"
  ELSE IF approverId \notin Range(registryIds(registry)) THEN "Unregistered"
  ELSE ""

\* approve(): the guard that raises, "" when the decision is accepted
approveError(approvals, registry, decisions, approvalId, approverId) ==
  IF approvalId \notin DOMAIN approvals THEN "NotFound"
  ELSE IF approvals[approvalId].status # "PENDING" THEN "AlreadyDecided"
  ELSE IF approverId \notin Range(approvals[approvalId].approvers) THEN "Unauthorized"
  ELSE IF approverId \notin Range(registryIds(registry)) THEN "Unregistered"
  ELSE IF \E i \in DOMAIN decisions[approvalId] :
            decisions[approvalId][i].approverId = approverId
    THEN "DuplicateDecision"
  ELSE ""

\* approve(): what the call does to the workflow
approve(approvalId, approverId) ==
  LET error == approveError(pendingApprovals, approvedApprovers,
                            approvalDecisions, approvalId, approverId)
      decisions == Append(approvalDecisions[approvalId],
                          [approverId |-> approverId, approved |-> TRUE])
      met == checkApprovalThreshold(decisions, pendingApprovals[approvalId])
  IN /\ IF error # ""
          THEN /\ emitted' = <<>>
               /\ UNCHANGED <<pendingApprovals, approvalDecisions>>
          ELSE /\ approvalDecisions' = [approvalDecisions EXCEPT ![approvalId] = decisions]
               /\ pendingApprovals' =
                    IF met
                      THEN [pendingApprovals EXCEPT ![approvalId].status = "APPROVED",
                                                    ![approvalId].approvedBy = approverId]
                      ELSE pendingApprovals
               /\ emitted' =
                    IF met
                      THEN <<Event("workflow", "ACTION_APPROVED", "info", approvalId,
                                   <<approverId>>)>>
                      ELSE <<>>
     /\ UNCHANGED <<mcVars, enfVars, auditVars, timers, approvedApprovers,
                    workflowConfig>>
     /\ Dispatch

\* MissionControl.approveAction(), which delegates to approve()
Approve(approvalId, approverId) ==
  /\ approve(approvalId, approverId)
  /\ ret' = NoRet

\* approve() called on the workflow, with what the caller observes: the
\* arguments and the error raised ("" when the call returned)
ApproveCall(approvalId, approverId) ==
  /\ approve(approvalId, approverId)
  /\ ret' = [op |-> "approve", approvalId |-> approvalId, by |-> approverId,
             error |-> approveError(pendingApprovals, approvedApprovers,
                                    approvalDecisions, approvalId, approverId)]

\* a guard that accepts a rejection from a chosen approver only
rejectError_ChosenOnly(approvals, registry, approvalId, approverId) ==
  IF approvalId \notin DOMAIN approvals THEN "NotFound"
  ELSE IF approvals[approvalId].status # "PENDING" THEN "AlreadyDecided"
  ELSE IF approverId \notin Range(approvals[approvalId].approvers) THEN "Unauthorized"
  ELSE IF approverId \notin Range(registryIds(registry)) THEN "Unregistered"
  ELSE ""

\* reject(): the guard that raises, "" when the rejection is accepted
rejectError(approvals, registry, approvalId, approverId) ==
  IF approvalId \notin DOMAIN approvals THEN "NotFound"
  ELSE IF approvals[approvalId].status # "PENDING" THEN "AlreadyDecided"
  ELSE IF approverId \notin Range(registryIds(registry)) THEN "Unregistered"
  ELSE ""

\* reject(): what the call does to the workflow
reject(approvalId, approverId, rejectionReason) ==
  LET error == rejectError(pendingApprovals, approvedApprovers, approvalId, approverId)
  IN /\ IF error # ""
          THEN /\ emitted' = <<>>
               /\ UNCHANGED pendingApprovals
          ELSE /\ pendingApprovals' =
                    [pendingApprovals EXCEPT ![approvalId].status = "REJECTED",
                                             ![approvalId].rejectedBy = approverId,
                                             ![approvalId].rejectionReason = rejectionReason]
               /\ emitted' = <<Event("workflow", "ACTION_REJECTED", "warning",
                                     approvalId, <<approverId, rejectionReason>>)>>
     /\ UNCHANGED <<mcVars, enfVars, auditVars, timers, approvedApprovers,
                    approvalDecisions, workflowConfig>>
     /\ Dispatch

\* MissionControl.rejectAction(), which delegates to reject()
Reject(approvalId, approverId, rejectionReason) ==
  /\ reject(approvalId, approverId, rejectionReason)
  /\ ret' = NoRet

\* reject() called on the workflow, with what the caller observes
RejectCall(approvalId, approverId, rejectionReason) ==
  /\ reject(approvalId, approverId, rejectionReason)
  /\ ret' = [op |-> "reject", approvalId |-> approvalId, by |-> approverId,
             reason |-> rejectionReason,
             error |-> rejectError(pendingApprovals, approvedApprovers,
                                   approvalId, approverId)]

\* a revoke that accepts a request in any status
revokeAllowed_AnyStatus(status) == TRUE

\* revoke(): the status from which a request may be revoked
revokeAllowed(status) == status = "APPROVED"

\* a guard that lets a PENDING request be revoked as well
revokeError_PendingToo(approvals, approvalId) ==
  IF approvalId \notin DOMAIN approvals THEN "NotFound"
  ELSE IF approvals[approvalId].status \notin {"APPROVED", "PENDING"}
    THEN "InvalidTransition"
  ELSE ""

\* revoke(): the guard that raises, "" when the revocation is accepted
revokeError(approvals, approvalId) ==
  IF approvalId \notin DOMAIN approvals THEN "NotFound"
  ELSE IF ~revokeAllowed(approvals[approvalId].status) THEN "InvalidTransition"
  ELSE ""

revokeEvent(approvalId, revokedBy, reason) ==
  Event("workflow", "ACTION_REJECTED", "critical", approvalId, <<revokedBy, reason>>)

\* revoke(): what the call does to the workflow
revoke(approvalId, revokedBy, reason) ==
  LET error == revokeError(pendingApprovals, approvalId)
  IN /\ IF error # ""
          THEN /\ emitted' = <<>>
               /\ UNCHANGED pendingApprovals
          ELSE /\ pendingApprovals' =
                    [pendingApprovals EXCEPT ![approvalId].status = "REVOKED"]
               /\ emitted' = <<revokeEvent(approvalId, revokedBy, reason)>>
     /\ UNCHANGED <<mcVars, enfVars, auditVars, timers, approvedApprovers,
                    approvalDecisions, workflowConfig>>
     /\ Dispatch

\* revoke() called on the workflow
Revoke(approvalId, revokedBy, reason) ==
  /\ revoke(approvalId, revokedBy, reason)
  /\ ret' = NoRet

\* revoke() called on the workflow, with what the caller observes
RevokeCall(approvalId, revokedBy, reason) ==
  /\ revoke(approvalId, revokedBy, reason)
  /\ ret' = [op |-> "revoke", approvalId |-> approvalId, by |-> revokedBy,
             error |-> revokeError(pendingApprovals, approvalId)]

RECURSIVE revokeEach(_, _, _)
\* emergencyStop(): the loop over the pending snapshot; the first revoke
\* that raises ends the loop and the call
revokeEach(approvals, ids, reason) ==
  IF ids = <<>> THEN [approvals |-> approvals, error |-> "", events |-> <<>>]
  ELSE IF revokeError(approvals, Head(ids)) # ""
    THEN [approvals |-> approvals, error |-> revokeError(approvals, Head(ids)),
          events |-> <<>>]
  ELSE LET rest == revokeEach([approvals EXCEPT ![Head(ids)].status = "REVOKED"],
                              Tail(ids), reason)
       IN [approvals |-> rest.approvals, error |-> rest.error,
           events |-> <<revokeEvent(Head(ids), "EMERGENCY_STOP", reason)>>
                      \o rest.events]

\* emergencyStop(): ret keeps what the caller observes, the pending snapshot
\* the loop ran over and the error the call raised ("" when it returned)
EmergencyStop(reason) ==
  LET pending == getPendingApprovals(pendingApprovals)
      out == revokeEach(pendingApprovals, pending, reason)
  IN /\ pendingApprovals' = out.approvals
     /\ ret' = [op |-> "emergencyStop", pending |-> Range(pending),
                error |-> out.error]
     /\ emitted' =
          IF out.error # "" THEN out.events
          ELSE out.events \o
               <<Event("missioncontrol", "ACTION_REJECTED", "critical",
                       Len(pending), <<reason>>)>>
     /\ UNCHANGED <<mcVars, enfVars, auditVars, timers, approvedApprovers,
                    approvalDecisions, workflowConfig>>
     /\ Dispatch

(* ------------------------------- timers -------------------------------- *)

\* a timer callback runs only between tasks: no execute call is inside a
\* chain of already-resolved awaits
betweenTasks == \A r \in Requests : pc[r] \in {"idle", "executing", "done"}

\* Both delays are 300000 ms (l2ApprovalTimeoutMs, escalationTimeoutMs), so
\* the timers fire in the order in which they were scheduled.
timerDue(kind) ==
  /\ betweenTasks
  /\ timers # <<>>
  /\ Head(timers).kind = kind

timerFired(kind, id) ==
  \A i \in DOMAIN timers : ~(timers[i].kind = kind /\ timers[i].id = id)

\* the callback of scheduleApprovalTimeout
ApprovalTimeout ==
  LET i == Head(timers).id
  IN /\ timerDue("expiry")
     /\ timers' = Tail(timers)
     /\ IF approvalQueue[i].status = "PENDING"
          THEN /\ approvalQueue' = [approvalQueue EXCEPT ![i].status = "EXPIRED"]
               /\ emitted' = <<Event("enforcement", "APPROVAL_TIMEOUT", "warning",
                                     i, <<approvalQueue[i].actionRequestId>>)>>
          ELSE /\ emitted' = <<>>
               /\ UNCHANGED approvalQueue
     /\ ret' = NoRet
     /\ UNCHANGED <<mcVars, executedActions, wfVars, auditVars>>
     /\ Dispatch

\* an escalation callback that expires the request it warns about
EscalationTimeout_Expires ==
  LET a == Head(timers).id
  IN /\ timerDue("escalation")
     /\ timers' = Tail(timers)
     /\ pendingApprovals' =
          IF pendingApprovals[a].status = "PENDING"
            THEN [pendingApprovals EXCEPT ![a].status = "EXPIRED"]
            ELSE pendingApprovals
     /\ emitted' =
          IF pendingApprovals[a].status = "PENDING"
            THEN <<Event("workflow", "APPROVAL_TIMEOUT", "warning", a,
                         <<pendingApprovals[a].actionRequestId>>)>>
            ELSE <<>>
     /\ ret' = NoRet
     /\ UNCHANGED <<mcVars, enfVars, approvedApprovers, approvalDecisions,
                    workflowConfig, auditVars>>
     /\ Dispatch

\* the callback of scheduleEscalation
EscalationTimeout ==
  LET a == Head(timers).id
  IN /\ timerDue("escalation")
     /\ timers' = Tail(timers)
     /\ emitted' =
          IF pendingApprovals[a].status = "PENDING"
            THEN <<Event("workflow", "APPROVAL_TIMEOUT", "warning", a,
                         <<pendingApprovals[a].actionRequestId>>)>>
            ELSE <<>>
     /\ ret' = NoRet
     /\ UNCHANGED <<mcVars, enfVars, wfVars, auditVars>>
     /\ Dispatch

(* --------------------------- audit trail calls ------------------------- *)

\* verifyChain() and MissionControl.verifyAuditIntegrity()
VerifyChain ==
  /\ ret' = [op |-> "verifyChain", value |-> verifyChainValue(entries)]
  /\ emitted' = verifyChainEvents(entries)
  /\ UNCHANGED <<mcVars, enfVars, wfVars, timers, auditVars>>
  /\ Dispatch

\* an out-of-band write to one field of a stored entry (as the test suite
\* does through the private entries array): the field gets another value
tamperEntry(entry, field) ==
  IF field = "id" THEN [entry EXCEPT !.id = @ + 100]
  ELSE IF field = "timestamp" THEN [entry EXCEPT !.timestamp = @ + 100]
  ELSE IF field = "sequenceNumber" THEN [entry EXCEPT !.sequenceNumber = @ + 100]
  ELSE IF field = "actionRequest.id" THEN [entry EXCEPT !.actionRequest.id = @ + 100]
  ELSE IF field = "actionRequest.actionType"
    THEN [entry EXCEPT !.actionRequest.actionType =
            IF @ = "READ_PUBLIC" THEN "EXECUTE_ARBITRARY" ELSE "READ_PUBLIC"]
  ELSE IF field = "actionRequest.agentId"
    THEN [entry EXCEPT !.actionRequest.agentId =
            IF @ = "agent-l0" THEN "agent-l2" ELSE "agent-l0"]
  ELSE IF field = "actionResult.success"
    THEN [entry EXCEPT !.actionResult.success = ~@]
  ELSE IF field = "actionResult.error"
    THEN [entry EXCEPT !.actionResult.error = Append(@, "tampered")]
  ELSE IF field = "agentIdentity.id"
    THEN [entry EXCEPT !.agentIdentity.id =
            IF @ = "agent-l0" THEN "agent-l2" ELSE "agent-l0"]
  ELSE IF field = "agentIdentity.clearanceLevel"
    THEN [entry EXCEPT !.agentIdentity.clearanceLevel =
            IF @ = "L0" THEN "L2" ELSE "L0"]
  ELSE IF field = "approvalRequest" THEN [entry EXCEPT !.approvalRequest = @ + 100]
  ELSE IF field = "previousHash" THEN [entry EXCEPT !.previousHash = hash([tampered |-> TRUE])]
  ELSE IF field = "entryHash" THEN [entry EXCEPT !.entryHash = hash([tampered |-> TRUE])]
  ELSE [entry EXCEPT !.immutableProof = hash([tampered |-> TRUE])]

Tamper(i, field) ==
  /\ ~tampered
  /\ i \in DOMAIN entries
  /\ entries' = [entries EXCEPT ![i] = tamperEntry(entries[i], field)]
  /\ tampered' = TRUE
  /\ emitted' = <<>>
  /\ ret' = NoRet
  /\ UNCHANGED <<mcVars, enfVars, wfVars, timers, sequenceCounter>>
  /\ Dispatch

\* the AuditTrail calls that hand an entry to the caller
Accessors == {"record", "getEntry", "getAllEntries"}

\* Whether the entry a caller gets from the call is the object kept in the
\* entries array: record() returns the object it pushed, getEntry() the
\* element find() selects, and getAllEntries() a frozen array whose elements
\* are the stored objects.
returnsStored(via) == via \in {"record", "getEntry", "getAllEntries"}

\* a caller's write to one field of entry i as it got it from the call
WriteReturned(i, field, via) ==
  /\ ~tampered
  /\ i \in DOMAIN entries
  /\ entries' = IF returnsStored(via)
                  THEN [entries EXCEPT ![i] = tamperEntry(entries[i], field)]
                  ELSE entries
  /\ tampered' = TRUE
  /\ emitted' = <<>>
  /\ ret' = [op |-> "write", via |-> via]
  /\ UNCHANGED <<mcVars, enfVars, wfVars, timers, sequenceCounter>>
  /\ Dispatch

(* ---------------- direct calls on an EnforcementEngine ----------------- *)

\* how many times in a row, up to two, preExecute was called with the
\* action request of this call
attemptOf(last, actionRequest) ==
  IF last.op = "preExecute" /\ last.request = actionRequest
    THEN Min(last.attempt + 1, 2)
    ELSE 1

\* preExecute() called on the engine with an action request of the caller's
\* making; approval requests are created for at most MaxRequests calls
PreExecuteCall(id, actionType, agent) ==
  LET actionRequest == [id |-> id, actionType |-> actionType, agentId |-> agent]
      agentIdentity == agentIdentityOf(agent)
      approvalId == Len(approvalQueue) + 1
      er == validateAction(actionRequest, agentIdentity, approvalId)
      queue == IF er.requiresApproval
                 THEN Append(approvalQueue,
                             createApprovalRequest(approvalId, actionRequest, agentIdentity))
                 ELSE approvalQueue
      preResult == preExecute(er, actionRequest, queue, executedActions)
  IN /\ er.requiresApproval => Len(approvalQueue) < MaxRequests
     /\ approvalQueue' = queue
     /\ timers' = IF er.requiresApproval
                    THEN Append(timers, [kind |-> "expiry", id |-> approvalId])
                    ELSE timers
     /\ emitted' = validateEvents(actionRequest, agentIdentity, er)
     /\ ret' = [op |-> "preExecute", request |-> actionRequest,
                attempt |-> attemptOf(ret, actionRequest),
                proceed |-> preResult.proceed, reason |-> preResult.reason]
     /\ UNCHANGED <<mcVars, executedActions, wfVars, auditVars>>
     /\ Dispatch

\* postExecute() called on the engine
PostExecuteCall(id, actionType, agent, failed) ==
  LET actionRequest == [id |-> id, actionType |-> actionType, agentId |-> agent]
  IN /\ executedActions' = postExecute(executedActions, actionRequest, failed)
     /\ emitted' = <<postExecuteEvent(actionRequest, failed)>>
     /\ ret' = [op |-> "postExecute", request |-> actionRequest, failed |-> failed]
     /\ UNCHANGED <<mcVars, approvalQueue, wfVars, timers, auditVars>>
     /\ Dispatch

\* The path of the payload through execute() for an allowed action:
\* preExecute() sanitizes it and the executor is called with the outcome.
ExecutePayload(payload) ==
  LET out == sanitizePayload(payload)
  IN /\ ret' = [op |-> "executor", payload |-> payload, caller |-> out.caller,
                handed |-> executorArgument(out.modified, out.caller)]
     /\ emitted' = <<>>
     /\ UNCHANGED <<mcVars, enfVars, wfVars, timers, auditVars>>
     /\ Dispatch

\* validateAction() called on the engine for any action kind and agent, with
\* the EnforcementResult the caller gets; approval requests are created for
\* at most MaxSubmissions calls
ValidateActionCall(id, actionType, agent) ==
  LET actionRequest == [id |-> id, actionType |-> actionType, agentId |-> agent]
      agentIdentity == agentIdentityOf(agent)
      approvalId == Len(approvalQueue) + 1
      er == validateAction(actionRequest, agentIdentity, approvalId)
  IN /\ er.requiresApproval => Len(approvalQueue) < MaxSubmissions
     /\ approvalQueue' =
          IF er.requiresApproval
            THEN Append(approvalQueue,
                        createApprovalRequest(approvalId, actionRequest, agentIdentity))
            ELSE approvalQueue
     /\ timers' = IF er.requiresApproval
                    THEN Append(timers, [kind |-> "expiry", id |-> approvalId])
                    ELSE timers
     /\ emitted' = validateEvents(actionRequest, agentIdentity, er)
     /\ ret' = [op |-> "validateAction", request |-> actionRequest,
                agentIdentity |-> agentIdentity, result |-> er]
     /\ UNCHANGED <<mcVars, executedActions, wfVars, auditVars>>
     /\ Dispatch

(* ----------------- direct calls on an ApprovalWorkflow ----------------- *)

\* submitForApproval() called on the workflow with an action request of the
\* caller's making
SubmitForApproval(r, actionType, agent) ==
  LET actionRequest == [id |-> r, actionType |-> actionType, agentId |-> agent]
  IN /\ r \in Requests
     /\ r = Len(requests) + 1
     /\ requests' = Append(requests, actionRequest)
     /\ submitForApproval(actionRequest, agentIdentityOf(agent))
     /\ ret' = NoRet
     /\ UNCHANGED <<pc, pre, result, executorInvoked, activeContexts,
                    executionError, enfVars, auditVars>>
     /\ Dispatch

(* ---------------------------- specifications --------------------------- *)

\* the identifiers a caller may pass as an approval id: every id the workflow
\* has handed out, and one it has not
ApprovalIds == 1..(Len(pendingApprovals) + 1)

\* A MissionControl instance: its public methods, the executors it calls and
\* the timers its components schedule.
Next ==
  \/ \E r \in Requests, in \in ExecInputs : ExecuteBegin(r, in[1], in[2])
  \/ \E r \in Requests : ExecuteSubmit(r)
  \/ \E r \in Requests : ExecuteReject(r)
  \/ \E r \in Requests : ExecuteInvoke(r)
  \/ \E r \in Requests, failed \in BOOLEAN : ExecutorSettle(r, failed)
  \/ \E r \in Requests : ExecuteRecord(r)
  \/ \E id \in ApproverIds, level \in ApproverLevels : RegisterApprover(id, level)
  \/ \E a \in ApprovalIds, id \in ApproverIds : Approve(a, id)
  \/ \E a \in ApprovalIds, id \in ApproverIds, why \in RejectionReasons :
        Reject(a, id, why)
  \/ EmergencyStop("incident")
  \/ ApprovalTimeout
  \/ EscalationTimeout
  \/ VerifyChain

Spec == Init /\ [][Next]_vars

\* An ApprovalWorkflow instance driven directly.
NextWorkflow ==
  \/ \E r \in Requests, in \in SubmitInputs : SubmitForApproval(r, in[1], in[2])
  \/ \E id \in ApproverIds, level \in ApproverLevels : RegisterApprover(id, level)
  \/ \E id \in ApproverIds : UnregisterApprover(id)
  \/ \E a \in ApprovalIds, id \in ApproverIds : Approve(a, id)
  \/ \E a \in ApprovalIds, id \in ApproverIds, why \in RejectionReasons :
        Reject(a, id, why)
  \/ \E a \in ApprovalIds : Revoke(a, "operator", "incident")
  \/ EscalationTimeout

SpecWorkflow == Init /\ [][NextWorkflow]_vars

\* An ApprovalWorkflow constructed with its own configuration and called
\* directly, each call observed by its caller. The calls are made within
\* escalationTimeoutMs of every submission, so no escalation callback runs
\* between them; SpecWorkflow interleaves the callbacks with the calls.
NextConfigured ==
  \/ \E r \in 1..MaxSubmissions, in \in SubmitInputs :
       SubmitForApproval(r, in[1], in[2])
  \/ \E approverId \in ApproverIds, level \in ApproverLevels :
       RegisterApprover(approverId, level)
  \/ \E approverId \in ApproverIds : UnregisterApprover(approverId)
  \/ \E a \in ApprovalIds, approverId \in ApproverIds : ApproveCall(a, approverId)
  \/ \E a \in ApprovalIds, approverId \in ApproverIds, reason \in RejectionReasons :
       RejectCall(a, approverId, reason)
  \/ \E a \in ApprovalIds : RevokeCall(a, "operator", "incident")

SpecConfigured == InitConfigured /\ [][NextConfigured]_vars

\* An EnforcementEngine called directly.
NextEngine ==
  \/ \E id \in Requests, in \in ExecInputs : PreExecuteCall(id, in[1], in[2])
  \/ \E id \in Requests, in \in ExecInputs, failed \in BOOLEAN :
       PostExecuteCall(id, in[1], in[2], failed)
  \/ ApprovalTimeout

SpecEngine == Init /\ [][NextEngine]_vars

\* An EnforcementEngine whose validateAction is called for every action kind
\* and every agent clearance, and the expiry timers it schedules.
NextValidate ==
  \/ \E id \in Requests, actionType \in ActionType, agent \in Agents :
       ValidateActionCall(id, actionType, agent)
  \/ ApprovalTimeout

SpecValidate == Init /\ [][NextValidate]_vars

\* An EnforcementEngine with several handlers registered for ACTION_EXECUTED
\* on it, some of which throw or change the registry when they are called,
\* and postExecute calls that emit to them.
NextDispatch ==
  \/ \E h \in DispatchHandlers : EngineOnEvent("ACTION_EXECUTED", h)
  \/ \E id \in Requests, in \in ExecInputs, failed \in BOOLEAN :
       PostExecuteCall(id, in[1], in[2], failed)

SpecDispatch == Init /\ [][NextDispatch]_vars

\* execute calls of allowed actions with every payload of Payloads.
NextPayload ==
  \E payload \in Payloads : ExecutePayload(payload)

SpecPayload == Init /\ [][NextPayload]_vars

\* A MissionControl instance with handlers registered and unregistered
\* through onEvent while execute calls run.
NextEvents ==
  \/ \E in \in SubscribeInputs : OnEvent(in[1], in[2])
  \/ \E in \in SubscribeInputs : Unsubscribe(in[1], in[2])
  \/ \E r \in 1..MaxObservedCalls, in \in ExecInputs : ExecuteBegin(r, in[1], in[2])
  \/ \E r \in Requests : ExecuteSubmit(r)
  \/ \E r \in Requests : ExecuteReject(r)
  \/ \E r \in Requests : ExecuteInvoke(r)
  \/ \E r \in Requests, failed \in BOOLEAN : ExecutorSettle(r, failed)
  \/ \E r \in Requests : ExecuteRecord(r)
  \/ RegisterApprover("approver-1", "L2")
  \/ EmergencyStop("incident")

SpecEvents == Init /\ [][NextEvents]_vars

\* A MissionControl instance whose caller writes once to an audit entry it
\* obtained from the audit trail.
NextAlias ==
  \/ \E r \in Requests, in \in ExecInputs : ExecuteBegin(r, in[1], in[2])
  \/ \E r \in Requests : ExecuteSubmit(r)
  \/ \E r \in Requests : ExecuteReject(r)
  \/ \E r \in Requests : ExecuteInvoke(r)
  \/ \E r \in Requests, failed \in BOOLEAN : ExecutorSettle(r, failed)
  \/ \E r \in Requests : ExecuteRecord(r)
  \/ \E i \in 1..MaxRequests, field \in TamperFields, via \in Accessors :
       WriteReturned(i, field, via)
  \/ VerifyChain

SpecAlias == Init /\ [][NextAlias]_vars

\* A MissionControl instance with a handler registered for APPROVAL_TIMEOUT,
\* whose pending requests are decided through approveAction and rejectAction
\* while the timers of the two components run.
NextTimeout ==
  \/ OnEvent("APPROVAL_TIMEOUT", "recorder")
  \/ \E r \in 1..MaxObservedCalls, in \in ExecInputs : ExecuteBegin(r, in[1], in[2])
  \/ \E r \in Requests : ExecuteSubmit(r)
  \/ \E r \in Requests : ExecuteReject(r)
  \/ \E r \in Requests : ExecuteInvoke(r)
  \/ \E r \in Requests, failed \in BOOLEAN : ExecutorSettle(r, failed)
  \/ \E r \in Requests : ExecuteRecord(r)
  \/ RegisterApprover("approver-1", "L2")
  \/ \E a \in ApprovalIds : Approve(a, "approver-1")
  \/ \E a \in ApprovalIds, why \in RejectionReasons : Reject(a, "approver-1", why)
  \/ ApprovalTimeout
  \/ EscalationTimeout

SpecTimeout == Init /\ [][NextTimeout]_vars

\* A MissionControl instance whose audit trail is written out of band once.
NextTamper ==
  \/ \E r \in Requests, in \in ExecInputs : ExecuteBegin(r, in[1], in[2])
  \/ \E r \in Requests : ExecuteSubmit(r)
  \/ \E r \in Requests : ExecuteReject(r)
  \/ \E r \in Requests : ExecuteInvoke(r)
  \/ \E r \in Requests, failed \in BOOLEAN : ExecutorSettle(r, failed)
  \/ \E r \in Requests : ExecuteRecord(r)
  \/ \E i \in 1..MaxRequests, field \in TamperFields : Tamper(i, field)
  \/ VerifyChain

SpecTamper == Init /\ [][NextTamper]_vars

(* ------------------------------ properties ----------------------------- *)

requiredClearanceOf(r) == ACTION_CLEARANCE_MAP[requests[r].actionType]

\* request r is an L2 action kind requested by an agent of L2 clearance
isL2Request(r) ==
  /\ requiredClearanceOf(r) = "L2"
  /\ AgentClearance[requests[r].agentId] = "L2"

\* workflow request a was made for the action kind and agent of request r
sameActionAndAgent(a, r) ==
  /\ requests[pendingApprovals[a].actionRequestId].actionType = requests[r].actionType
  /\ requests[pendingApprovals[a].actionRequestId].agentId = requests[r].agentId

\* C1: for an L2 action kind requested by an L2 agent while an approver is
\* registered, execute returns a pending reference whose approvalId names a
\* PENDING request of the workflow; and the executor of an L2 action is
\* invoked only when the workflow holds a request for that action and agent
\* that approve has moved to APPROVED.
C1_L2PendingUntilApproved ==
  [][\A r \in Requests :
       /\ (/\ pc[r] = "preDone" /\ pc'[r] = "done"
           /\ isL2Request(r) /\ approvedApprovers # <<>>)
          => /\ result'[r].type = "pending"
             /\ result'[r].approvalId \in DOMAIN pendingApprovals'
             /\ pendingApprovals'[result'[r].approvalId].status = "PENDING"
             /\ pendingApprovals'[result'[r].approvalId].actionRequestId = r
       /\ (/\ r \notin executorInvoked /\ r \in executorInvoked'
           /\ requiredClearanceOf(r) = "L2")
          => \E a \in DOMAIN pendingApprovals :
               /\ pendingApprovals[a].status = "APPROVED"
               /\ sameActionAndAgent(a, r)]_vars

C1_Witness ==
  \E r \in Requests :
    /\ pc[r] = "done"
    /\ isL2Request(r)
    /\ result[r].type = "pending"
    /\ pendingApprovals[result[r].approvalId].status = "PENDING"

\* C2: an execute call by an agent whose clearance is below the clearance
\* the action kind requires fails with the error code CLEARANCE_VIOLATION
\* and its executor is never invoked.
C2_ClearanceViolationCode ==
  \A r \in Requests :
    (/\ pc[r] = "done"
     /\ ~hasSufficientClearance(AgentClearance[requests[r].agentId],
                                requiredClearanceOf(r)))
      => /\ result[r].type = "error"
         /\ result[r].code = "CLEARANCE_VIOLATION"
         /\ r \notin executorInvoked

\* C3: an execute call made when the workflow holds an APPROVED request for
\* the same action kind and agent proceeds past preExecute (so that the
\* executor is invoked and a success tuple is returned).
C3_ApprovedRetryProceeds ==
  [][\A r \in Requests :
       (/\ pc[r] = "idle" /\ pc'[r] = "preDone"
        /\ \E a \in DOMAIN pendingApprovals :
             /\ pendingApprovals[a].status = "APPROVED"
             /\ sameActionAndAgent(a, r)')
         => pre'[r].proceed]_vars

\* C4: the stored entries carry the sequence numbers 1, 2, ..., n in storage
\* order, the first entry links to the genesis hash and every later entry
\* links to the entryHash of the entry before it.
C4_DenseChainedSequence ==
  /\ \A i \in DOMAIN entries : entries[i].sequenceNumber = i
  /\ entries # <<>> => entries[1].previousHash = genesisHash
  /\ \A i \in DOMAIN entries :
       i > 1 => entries[i].previousHash = entries[i - 1].entryHash

\* two execute calls whose appends happened in the reverse of call order
C4_Witness ==
  /\ Len(entries) >= 2
  /\ entries[1].actionRequest.id > entries[2].actionRequest.id

\* C5: with appends through record only, verifyChain() returns true and
\* emits no audit-tamper-detected event, on the empty trail too.
C5_VerifyChainHolds ==
  /\ verifyChainValue(entries)
  /\ verifyChainEvents(entries) = <<>>
  /\ ret.op = "verifyChain" => (ret.value /\ emitted = <<>>)

C5_Witness ==
  /\ ret.op = "verifyChain"
  /\ Len(entries) >= 2

\* C6: after a write to any field of a stored entry, the next verifyChain()
\* returns false and emits exactly one audit-tamper-detected event.
C6_AnyMutationDetected ==
  (tampered /\ ret.op = "verifyChain")
    => /\ ret.value = FALSE
       /\ Len(emitted) = 1
       /\ emitted[1].type = "AUDIT_TAMPER_DETECTED"

\* C7: emergencyStop called with k >= 1 pending requests returns without
\* error, leaves each of them REVOKED and none PENDING, and emits exactly one
\* composite critical action-rejected event carrying k and the reason.
C7_EmergencyStopRevokesPending ==
  (ret.op = "emergencyStop" /\ ret.pending # {})
    => /\ ret.error = ""
       /\ \A a \in ret.pending : pendingApprovals[a].status = "REVOKED"
       /\ getPendingApprovals(pendingApprovals) = <<>>
       /\ Cardinality({i \in DOMAIN emitted :
                         /\ emitted[i].source = "missioncontrol"
                         /\ emitted[i].type = "ACTION_REJECTED"
                         /\ emitted[i].severity = "critical"
                         /\ emitted[i].about = Cardinality(ret.pending)
                         /\ emitted[i].detail = <<"incident">>}) = 1

\* C8: an execute call made when the workflow holds a REJECTED request for
\* the same action kind and agent is stopped by preExecute with the
\* rejection reason and is not routed to the pending branch (so that it
\* fails with ENFORCEMENT_REJECTED and a failed audit entry instead of
\* invoking the executor or returning a pending reference).
C8_RejectedRetryFails ==
  [][\A r \in Requests :
       \A a \in DOMAIN pendingApprovals :
         (/\ pc[r] = "idle" /\ pc'[r] = "preDone"
          /\ pendingApprovals[a].status = "REJECTED"
          /\ sameActionAndAgent(a, r)')
           => /\ ~pre'[r].proceed
              /\ ~approvalIsPending(r)'
              /\ pre'[r].reason =
                   <<"Approval rejected:", pendingApprovals[a].rejectionReason>>]_vars

\* C9: once the deadline of a request of the workflow has passed
\* (l2ApprovalTimeoutMs after its creation: the escalation timer has the
\* same delay and is scheduled when the request is created), the request is
\* not PENDING any more, and approve does not move it to APPROVED afterwards.
C9_DeadlineExpiresRequest ==
  [][\A a \in DOMAIN pendingApprovals' :
       timerFired("escalation", a)' =>
         /\ pendingApprovals'[a].status # "PENDING"
         /\ (/\ a \in DOMAIN pendingApprovals
             /\ timerFired("escalation", a)
             /\ pendingApprovals[a].status # "APPROVED")
            => pendingApprovals'[a].status # "APPROVED"]_vars

\* C10: the status of a request held by the workflow changes only along
\* PENDING->APPROVED, PENDING->REJECTED, PENDING->EXPIRED and
\* APPROVED->REVOKED; REJECTED, EXPIRED and REVOKED are never left.
C10_StatusTransitions ==
  [][\A a \in DOMAIN pendingApprovals :
       \/ pendingApprovals'[a].status = pendingApprovals[a].status
       \/ <<pendingApprovals[a].status, pendingApprovals'[a].status>> \in
            {<<"PENDING", "APPROVED">>, <<"PENDING", "REJECTED">>,
             <<"PENDING", "EXPIRED">>, <<"APPROVED", "REVOKED">>}]_vars

\* a request that was approved and then revoked, next to one that was rejected
C10_Witness ==
  /\ \E a \in DOMAIN pendingApprovals : pendingApprovals[a].status = "REVOKED"
  /\ \E a \in DOMAIN pendingApprovals : pendingApprovals[a].status = "REJECTED"

\* the events of the given type among those emitted by the last step
eventsOfType(evs, type) == {i \in DOMAIN evs : evs[i].type = type}

\* the approvers who have a decision recorded for request a
decidedBy(decisions) == {decisions[i].approverId : i \in DOMAIN decisions}

\* C11: with requireUnanimous and N chosen approvers, every affirmative
\* decision recorded for a request is the decision of a chosen approver who
\* had none; after the k-th one with k < N the request is still PENDING and
\* no action-approved event is emitted; after the N-th it is APPROVED and
\* exactly one action-approved event is emitted; and a request becomes
\* APPROVED in no other step.
C11_UnanimousAtNthApproval ==
  [][workflowConfig.requireUnanimous =>
       \A a \in DOMAIN pendingApprovals :
         LET N == Len(pendingApprovals[a].approvers)
             k == Len(approvalDecisions'[a])
             recorded == approvalDecisions'[a] # approvalDecisions[a]
         IN /\ recorded =>
                 /\ k = Len(approvalDecisions[a]) + 1
                 /\ k <= N
                 /\ Cardinality(decidedBy(approvalDecisions'[a])) = k
                 /\ decidedBy(approvalDecisions'[a]) \subseteq
                      Range(pendingApprovals[a].approvers)
                 /\ k < N => /\ pendingApprovals'[a].status = "PENDING"
                             /\ eventsOfType(emitted', "ACTION_APPROVED") = {}
                 /\ k = N => /\ pendingApprovals'[a].status = "APPROVED"
                             /\ Len(emitted') = 1
                             /\ emitted'[1].type = "ACTION_APPROVED"
                             /\ emitted'[1].about = a
            /\ (/\ pendingApprovals[a].status # "APPROVED"
                /\ pendingApprovals'[a].status = "APPROVED")
               => (recorded /\ k = N /\ pendingApprovals[a].status = "PENDING")]_vars

\* a request with two chosen approvers that both have approved
C11_Witness ==
  /\ workflowConfig.requireUnanimous
  /\ \E a \in DOMAIN pendingApprovals :
       /\ Len(pendingApprovals[a].approvers) = 2
       /\ Len(approvalDecisions[a]) = 2
       /\ pendingApprovals[a].status = "APPROVED"

\* C12: without requireUnanimous, a request for which every one of its
\* chosen approvers has an affirmative decision recorded has been approved,
\* whatever minApprovers is (the threshold is the registry size when
\* minApprovers exceeds it at submission).
C12_ThresholdCappedByRegistry ==
  ~workflowConfig.requireUnanimous =>
    \A a \in DOMAIN pendingApprovals :
      Range(pendingApprovals[a].approvers) \subseteq decidedBy(approvalDecisions[a])
        => pendingApprovals[a].status \in {"APPROVED", "REVOKED"}

\* the workflow's requests and recorded decisions are what they were and the
\* step emitted nothing
workflowUntouched ==
  /\ pendingApprovals' = pendingApprovals
  /\ approvalDecisions' = approvalDecisions
  /\ emitted' = <<>>

\* C13: an approve call fails when the approval id is unknown, the request
\* is not PENDING, the approver is not among the request's chosen approvers,
\* is not registered, or already has a decision recorded for the request;
\* a failed approve changes no request and no decision list and emits no
\* event; and no approver has two decisions recorded for one request.
C13_ApproveFailures ==
  /\ [][ret'.op = "approve" =>
          LET a == ret'.approvalId
              by == ret'.by
              mustFail ==
                IF a \notin DOMAIN pendingApprovals THEN TRUE
                ELSE \/ pendingApprovals[a].status # "PENDING"
                     \/ by \notin Range(pendingApprovals[a].approvers)
                     \/ by \notin Range(registryIds(approvedApprovers))
                     \/ by \in decidedBy(approvalDecisions[a])
          IN /\ mustFail => ret'.error # ""
             /\ ret'.error # "" => workflowUntouched]_vars
  /\ [](\A a \in DOMAIN approvalDecisions :
          Cardinality(decidedBy(approvalDecisions[a])) = Len(approvalDecisions[a]))

\* a second approve by an approver whose first decision left the request
\* PENDING
C13_Witness ==
  /\ ret.op = "approve"
  /\ ret.error = "DuplicateDecision"
  /\ pendingApprovals[ret.approvalId].status = "PENDING"
  /\ ret.by \in decidedBy(approvalDecisions[ret.approvalId])

\* C14: reject by a registered approver on a PENDING request moves it to
\* REJECTED whatever approvals are recorded, stores rejectedBy and
\* rejectionReason and emits exactly one action-rejected event at warning
\* severity; reject on an unknown or non-PENDING request fails and changes
\* nothing.
C14_RejectIsImmediate ==
  [][ret'.op = "reject" =>
       LET a == ret'.approvalId
           by == ret'.by
       IN IF a \in DOMAIN pendingApprovals /\ pendingApprovals[a].status = "PENDING"
            THEN by \in Range(registryIds(approvedApprovers)) =>
                   /\ ret'.error = ""
                   /\ pendingApprovals'[a].status = "REJECTED"
                   /\ pendingApprovals'[a].rejectedBy = by
                   /\ pendingApprovals'[a].rejectionReason = ret'.reason
                   /\ \A b \in DOMAIN pendingApprovals \ {a} :
                        pendingApprovals'[b] = pendingApprovals[b]
                   /\ approvalDecisions' = approvalDecisions
                   /\ Len(emitted') = 1
                   /\ emitted'[1].type = "ACTION_REJECTED"
                   /\ emitted'[1].severity = "warning"
                   /\ emitted'[1].about = a
            ELSE ret'.error # "" /\ workflowUntouched]_vars

\* a rejection of a request that already had an approval recorded, by a
\* registered approver who is not one of its chosen approvers
C14_Witness ==
  /\ ret.op = "reject"
  /\ ret.error = ""
  /\ approvalDecisions[ret.approvalId] # <<>>
  /\ ret.by \notin Range(pendingApprovals[ret.approvalId].approvers)
  /\ pendingApprovals[ret.approvalId].status = "REJECTED"

\* C15: revoke succeeds only on an APPROVED request, which moves to REVOKED
\* with one action-rejected event at critical severity; on a request in any
\* other status it fails with the invalid-transition error, changes nothing
\* and emits no event.
C15_RevokeOnlyApproved ==
  [][(ret'.op = "revoke" /\ ret'.approvalId \in DOMAIN pendingApprovals) =>
       LET a == ret'.approvalId
       IN IF pendingApprovals[a].status = "APPROVED"
            THEN /\ ret'.error = ""
                 /\ pendingApprovals'[a].status = "REVOKED"
                 /\ Len(emitted') = 1
                 /\ emitted'[1].type = "ACTION_REJECTED"
                 /\ emitted'[1].severity = "critical"
                 /\ emitted'[1].about = a
            ELSE /\ ret'.error = "InvalidTransition"
                 /\ workflowUntouched]_vars

\* a revoke refused on a request that had been revoked before
C15_Witness ==
  /\ ret.op = "revoke"
  /\ ret.error = "InvalidTransition"
  /\ pendingApprovals[ret.approvalId].status = "REVOKED"

\* the entry a step appended to the trail
appended == entries'[Len(entries')]

isAppend == Len(entries') = Len(entries) + 1

\* C16 (as stated): every audit entry of an L2 action kind carries an
\* approval request reference, and that approval request is APPROVED when the
\* entry is appended.
C16_L2EntriesCarryApproved ==
  [][(isAppend /\ ACTION_CLEARANCE_MAP[appended.actionRequest.actionType] = "L2")
       => /\ appended.approvalRequest # 0
          /\ approvalQueue'[appended.approvalRequest].status = "APPROVED"]_vars

\* C16 (amended): every audit entry of an L2 action kind either records a
\* rejection for insufficient clearance (a failed entry of an agent below
\* L2, without approval request reference) or carries an approval request
\* reference whose status is APPROVED when the entry is appended.
C16_L2EntriesRejectedOrApproved ==
  [][(isAppend /\ ACTION_CLEARANCE_MAP[appended.actionRequest.actionType] = "L2")
       => \/ /\ appended.approvalRequest = 0
             /\ ~appended.actionResult.success
             /\ ~hasSufficientClearance(appended.agentIdentity.clearanceLevel, "L2")
          \/ /\ appended.approvalRequest # 0
             /\ approvalQueue'[appended.approvalRequest].status = "APPROVED"]_vars

\* the failed entry of an L2 action requested by an agent below L2
C16_Witness ==
  \E i \in DOMAIN entries :
    /\ ACTION_CLEARANCE_MAP[entries[i].actionRequest.actionType] = "L2"
    /\ entries[i].approvalRequest = 0
    /\ ~entries[i].actionResult.success

\* C17: no action-request id is the embedded action request of two distinct
\* audit entries.
C17_OneEntryPerRequestId ==
  \A i, j \in DOMAIN entries :
    i # j => entries[i].actionRequest.id # entries[j].actionRequest.id

\* two execute calls have each appended their entry, one for an executed
\* action and one for a rejected one
C17_Witness ==
  \E i, j \in DOMAIN entries :
    /\ entries[i].actionResult.success
    /\ ~entries[j].actionResult.success
    /\ \A r \in Requests : pc[r] = "done"

sufficientClearance(actionRequest) ==
  hasSufficientClearance(AgentClearance[actionRequest.agentId],
                         ACTION_CLEARANCE_MAP[actionRequest.actionType])

alreadyExecutedReason == <<"Action already executed (idempotency check)">>

\* C18: postExecute marks the request id as executed whether the execution
\* succeeded or failed, an id once marked stays marked, and every preExecute
\* with a marked id returns proceed = false, with the already-executed reason
\* when the agent's clearance is sufficient.
C18_ExecutedIdsAreRejected ==
  [][/\ ret'.op = "postExecute" => ret'.request.id \in executedActions'
     /\ executedActions \subseteq executedActions'
     /\ (ret'.op = "preExecute" /\ ret'.request.id \in executedActions)
          => /\ ~ret'.proceed
             /\ sufficientClearance(ret'.request)
                  => ret'.reason = alreadyExecutedReason]_vars

\* a preExecute of an L2 action by an L2 agent refused because its id had
\* been marked executed
C18_Witness ==
  /\ ret.op = "preExecute"
  /\ ret.request.id \in executedActions
  /\ sufficientClearance(ret.request)
  /\ ret.reason = alreadyExecutedReason
  /\ \E i \in DOMAIN approvalQueue : approvalQueue[i].actionRequestId = ret.request.id

\* C19: the second of two consecutive preExecute calls with the same action
\* request and an agent of sufficient clearance returns proceed = false with
\* the already-executed reason.
C19_SecondAttemptRejected ==
  (ret.op = "preExecute" /\ ret.attempt = 2 /\ sufficientClearance(ret.request))
    => /\ ~ret.proceed
       /\ ret.reason = alreadyExecutedReason

\* the audit entries whose embedded action request is request r
entriesOf(r) == {i \in DOMAIN entries : entries[i].actionRequest.id = requests[r].id}

\* C20: when the executor of an allowed action raises, the call leaves the
\* request id marked executed and no execution context for it, appends one
\* audit entry with success = false and the executor's message, and fails
\* with EXECUTION_FAILED carrying that entry and that message; no other
\* entry is ever appended for the request.
C20_ExecutorFailure ==
  /\ [][\A r \in Requests :
          (pc[r] = "postDone" /\ pc'[r] = "done" /\ r \in executionError)
            => /\ isAppend
               /\ appended.actionRequest = requests[r]
               /\ ~appended.actionResult.success
               /\ appended.actionResult.error = <<"Execution failed">>
               /\ requests[r].id \in executedActions'
               /\ r \notin activeContexts'
               /\ result'[r].type = "error"
               /\ result'[r].code = "EXECUTION_FAILED"
               /\ result'[r].message = appended.actionResult.error
               /\ result'[r].auditEntry = Len(entries')]_vars
  /\ [](\A r \in Requests :
          r \in executionError =>
            Cardinality(entriesOf(r)) = IF pc[r] = "done" THEN 1 ELSE 0)

\* an execute call has failed with EXECUTION_FAILED while another call's
\* executor is still running
C20_Witness ==
  \E r, q \in Requests :
    /\ pc[r] = "done"
    /\ result[r].code = "EXECUTION_FAILED"
    /\ pc[q] = "executing"

\* the rank of a clearance level: L0 < L1 < L2
rank == [l \in ClearanceLevel |-> IF l = "L0" THEN 0 ELSE IF l = "L1" THEN 1 ELSE 2]

\* C22: for every action kind K and agent clearance A, validateAction
\* returns allowed = (rank(A) >= rank(ACTION_CLEARANCE_MAP[K])) and
\* requiresApproval = (allowed and ACTION_CLEARANCE_MAP[K] = L2), and a
\* PENDING approval request of the engine, made for the action request, is
\* attached exactly when requiresApproval is true.
C22_ValidateByRank ==
  ret.op = "validateAction" =>
    LET K == ret.request.actionType
        A == ret.agentIdentity.clearanceLevel
        shouldAllow == rank[A] >= rank[ACTION_CLEARANCE_MAP[K]]
        er == ret.result
    IN /\ er.allowed = shouldAllow
       /\ er.requiresApproval = (shouldAllow /\ ACTION_CLEARANCE_MAP[K] = "L2")
       /\ er.requiresApproval = (er.approvalRequest # 0)
       /\ er.approvalRequest # 0 =>
            /\ er.approvalRequest \in DOMAIN approvalQueue
            /\ approvalQueue[er.approvalRequest].status = "PENDING"
            /\ approvalQueue[er.approvalRequest].actionRequestId = ret.request.id

\* an L2 action kind validated for an L2 agent, with its approval request
C22_Witness ==
  /\ ret.op = "validateAction"
  /\ ret.request.actionType = "EXECUTE_ARBITRARY"
  /\ ret.agentIdentity.clearanceLevel = "L2"
  /\ ret.result.requiresApproval
  /\ approvalQueue[ret.result.approvalRequest].status = "PENDING"

\* C23: in every interleaving of execute calls, the executor of a request is
\* invoked only by a call whose preExecute has returned proceed = true,
\* postExecute marks a request only when its executor has been invoked and
\* settles, and the audit entry of a call that proceeded is appended only
\* after postExecute has marked the request, by the call that then returns.
C23_StepsInOrder ==
  [][\A r \in Requests :
       /\ (r \notin executorInvoked /\ r \in executorInvoked')
            => /\ pc[r] = "preDone" /\ pre[r].proceed
               /\ requests[r].id \notin executedActions'
               /\ entriesOf(r)' = {}
       /\ (/\ r \in DOMAIN requests
           /\ requests[r].id \notin executedActions
           /\ requests[r].id \in executedActions')
            => /\ r \in executorInvoked
               /\ pc[r] = "executing" /\ pc'[r] = "postDone"
               /\ entriesOf(r)' = {}
       /\ (/\ r \in DOMAIN requests /\ pre[r].proceed
           /\ entriesOf(r)' # entriesOf(r))
            => /\ requests[r].id \in executedActions
               /\ r \in executorInvoked
               /\ pc[r] = "postDone" /\ pc'[r] = "done"]_vars

\* a call has returned its success tuple while the executor of a call that
\* began earlier has settled and its audit entry is not appended yet
C23_Witness ==
  \E r, q \in Requests :
    /\ r > q
    /\ pc[r] = "done" /\ result[r].type = "success"
    /\ pc[q] = "postDone"

\* C24: getActiveContexts() lists a request exactly while its executor has
\* been invoked and has not settled; the record is removed when the executor
\* settles, on success and on failure; a request that was rejected or
\* returned as approval-pending has no record at any time.
C24_ContextsAreInFlight ==
  /\ [](\A r \in Requests :
          /\ r \in getActiveContexts(activeContexts)
               <=> (r \in executorInvoked /\ pc[r] \notin {"postDone", "done"})
          /\ (pc[r] # "idle" /\ ~pre[r].proceed)
               => (r \notin executorInvoked /\ r \notin getActiveContexts(activeContexts)))
  /\ [][\A r \in Requests :
          (pc[r] = "executing" /\ pc'[r] # "executing")
            => /\ r \in getActiveContexts(activeContexts)
               /\ r \notin getActiveContexts(activeContexts')]_vars

\* one executor is in flight while the executor of another call has raised
\* and its record is gone
C24_Witness ==
  \E r, q \in Requests :
    /\ r \in activeContexts
    /\ q \in executionError
    /\ q \notin activeContexts

\* the timers of the given kind and approval id waiting in the host's queue
scheduled(kind, id) ==
  {i \in DOMAIN timers : timers[i].kind = kind /\ timers[i].id = id}

\* the one approval-timeout warning a timer callback emits
timeoutWarning(evs, source, id) ==
  /\ Len(evs) = 1
  /\ evs[1].source = source
  /\ evs[1].type = "APPROVAL_TIMEOUT"
  /\ evs[1].severity = "warning"
  /\ evs[1].about = id

\* C29: every approval request gets one timer when it is created and a timer
\* that has fired never fires again; the engine's expiry timer moves its
\* request to EXPIRED and emits one approval-timeout warning if the request is
\* PENDING when it fires, and does nothing otherwise; the workflow's
\* escalation timer emits one approval-timeout warning if its request is
\* PENDING when it fires, none otherwise, and changes no request.
C29_TimersFireOnce ==
  /\ [](/\ \A i \in DOMAIN approvalQueue : Cardinality(scheduled("expiry", i)) <= 1
        /\ \A a \in DOMAIN pendingApprovals :
             Cardinality(scheduled("escalation", a)) <= 1)
  /\ [][/\ \A i \in DOMAIN approvalQueue' :
             IF i \in DOMAIN approvalQueue
               THEN scheduled("expiry", i) = {} => scheduled("expiry", i)' = {}
               ELSE scheduled("expiry", i)' # {}
        /\ \A a \in DOMAIN pendingApprovals' :
             IF a \in DOMAIN pendingApprovals
               THEN scheduled("escalation", a) = {} => scheduled("escalation", a)' = {}
               ELSE scheduled("escalation", a)' # {}
        /\ \A i \in DOMAIN approvalQueue :
             (scheduled("expiry", i) # {} /\ scheduled("expiry", i)' = {})
               => IF approvalQueue[i].status = "PENDING"
                    THEN /\ approvalQueue'[i].status = "EXPIRED"
                         /\ timeoutWarning(emitted', "enforcement", i)
                    ELSE /\ approvalQueue' = approvalQueue
                         /\ emitted' = <<>>
        /\ \A a \in DOMAIN pendingApprovals :
             (scheduled("escalation", a) # {} /\ scheduled("escalation", a)' = {})
               => /\ pendingApprovals' = pendingApprovals
                  /\ IF pendingApprovals[a].status = "PENDING"
                       THEN timeoutWarning(emitted', "workflow", a)
                       ELSE emitted' = <<>>]_vars

\* the escalation timer of a request that had been approved has fired
\* silently, after the engine's expiry timer for the same action had fired
C29_Witness ==
  /\ ret = NoRet
  /\ emitted = <<>>
  /\ \E a \in DOMAIN pendingApprovals :
       /\ pendingApprovals[a].status = "APPROVED"
       /\ scheduled("escalation", a) = {}
       /\ \E i \in DOMAIN approvalQueue :
            /\ approvalQueue[i].actionRequestId = pendingApprovals[a].actionRequestId
            /\ approvalQueue[i].status = "EXPIRED"

\* entry i links to the entry stored before it (the genesis hash for the first)
linked(i) ==
  entries[i].previousHash =
    (IF i = 1 THEN genesisHash ELSE entries[i - 1].entryHash)

hashed(i) == entries[i].entryHash = computeEntryHash(entries[i])

proved(i) == entries[i].immutableProof = computeImmutableProof(entries[i])

\* C30: a verifyChain() call on a trail in which some entry fails a check
\* returns false and emits exactly one critical audit-tamper-detected event,
\* about the first entry in storage order that fails one, with the code of
\* the first check that entry fails in the order previous-hash linkage,
\* entry hash, immutable proof; with only the entryHash of the first of two
\* or more entries overwritten the code is ENTRY_HASH_MISMATCH.
C30_FirstFailingCheck ==
  ret.op = "verifyChain" =>
    /\ (\E i \in DOMAIN entries : ~(linked(i) /\ hashed(i) /\ proved(i)))
         => /\ ret.value = FALSE
            /\ Len(emitted) = 1
            /\ emitted[1].type = "AUDIT_TAMPER_DETECTED"
            /\ emitted[1].severity = "critical"
            /\ \E i \in DOMAIN entries :
                 /\ \A j \in 1..(i - 1) : linked(j) /\ hashed(j) /\ proved(j)
                 /\ ~(linked(i) /\ hashed(i) /\ proved(i))
                 /\ emitted[1].about = entries[i].id
                 /\ emitted[1].detail =
                      <<IF ~linked(i) THEN "PREVIOUS_HASH_MISMATCH"
                        ELSE IF ~hashed(i) THEN "ENTRY_HASH_MISMATCH"
                        ELSE "PROOF_MISMATCH">>
    /\ (/\ Len(entries) >= 2
        /\ entries[1].entryHash = hash([tampered |-> TRUE]))
         => /\ ret.value = FALSE
            /\ emitted[1].detail = <<"ENTRY_HASH_MISMATCH">>

\* verifyChain() has run on a trail of two entries whose first entry had its
\* entryHash overwritten
C30_Witness ==
  /\ ret.op = "verifyChain"
  /\ Len(entries) >= 2
  /\ entries[1].entryHash = hash([tampered |-> TRUE])
  /\ ~ret.value
  /\ emitted[1].detail = <<"ENTRY_HASH_MISMATCH">>

\* the handlers registered through MissionControl.onEvent for the kind
registered(type) == Range(eventListeners["missioncontrol"][type])

\* the agent of request r lacks the clearance its action kind requires
lacksClearance(r) ==
  ~hasSufficientClearance(AgentClearance[requests[r].agentId], requiredClearanceOf(r))

\* C21: when the agent lacks the required clearance, the execute call hands
\* every handler registered for clearance-violation exactly one event, at
\* critical severity and carrying the action id and the required and actual
\* level, and no other step hands out a clearance-violation event; the call
\* appends one audit entry with success = false and the insufficient
\* clearance message, fails with an error that carries that entry, and no
\* other entry is ever appended for the request.
C21_ClearanceViolationObserved ==
  /\ [][/\ \A r \in Requests :
             (pc[r] = "idle" /\ pc'[r] = "preDone" /\ lacksClearance(r)')
               => \A h \in registered("CLEARANCE_VIOLATION") :
                    LET got == handedTo(dispatched'.calls, h)
                    IN /\ Len(got) = 1
                       /\ got[1].type = "CLEARANCE_VIOLATION"
                       /\ got[1].severity = "critical"
                       /\ got[1].about = requests'[r].id
                       /\ got[1].detail =
                            <<requiredClearanceOf(r)',
                              AgentClearance[requests'[r].agentId]>>
        /\ \A k \in DOMAIN dispatched'.calls :
             dispatched'.calls[k].event.type = "CLEARANCE_VIOLATION"
               => \E r \in Requests :
                    /\ pc[r] = "idle" /\ pc'[r] = "preDone" /\ lacksClearance(r)'
                    /\ dispatched'.calls[k].event.about = requests'[r].id
        /\ \A r \in Requests :
             (pc[r] = "preDone" /\ pc'[r] = "done" /\ lacksClearance(r))
               => /\ isAppend
                  /\ appended.actionRequest = requests[r]
                  /\ ~appended.actionResult.success
                  /\ appended.actionResult.error[1] = "Insufficient clearance: requires"
                  /\ result'[r].type = "error"
                  /\ result'[r].auditEntry = Len(entries')]_vars
  /\ [](\A r \in DOMAIN requests :
          lacksClearance(r) =>
            /\ Cardinality(entriesOf(r)) = (IF pc[r] = "done" THEN 1 ELSE 0)
            /\ Cardinality({k \in DOMAIN events :
                              /\ events[k].type = "CLEARANCE_VIOLATION"
                              /\ events[k].about = requests[r].id}) <= 1)

\* the call has failed with its audit entry and the recorder holds the
\* clearance-violation event of the request
C21_Witness ==
  \E r \in DOMAIN requests :
    /\ pc[r] = "done"
    /\ lacksClearance(r)
    /\ result[r].auditEntry \in DOMAIN entries
    /\ ~entries[result[r].auditEntry].actionResult.success
    /\ \E k \in DOMAIN events :
         /\ events[k].type = "CLEARANCE_VIOLATION"
         /\ events[k].severity = "critical"
         /\ events[k].about = requests[r].id

\* event e was emitted for the execution of request r: by the enforcement
\* engine about the request id, or by the audit trail about the entry the
\* call returned
ofExecution(e, r) ==
  \/ e.source = "enforcement" /\ e.about = requests[r].id
  \/ e.source = "audit" /\ e.about = entries[result[r].auditEntry].id

\* the ACTION_EXECUTED events the recorder was handed for the execution of r
executedSeen(r) ==
  {k \in DOMAIN events : events[k].type = "ACTION_EXECUTED" /\ ofExecution(events[k], r)}

\* C25: a handler registered through MissionControl.onEvent for
\* ACTION_EXECUTED is invoked no more than once for a successful execute
\* call, and exactly once when it was registered as the call completed.
C25_ExecutedObservedOnce ==
  \A r \in DOMAIN requests :
    result[r].type = "success" =>
      /\ Cardinality(executedSeen(r)) <= 1
      /\ (\E k \in DOMAIN dispatched.calls :
            /\ dispatched.calls[k].handler = "recorder"
            /\ dispatched.calls[k].event.type = "ACTION_EXECUTED"
            /\ ofExecution(dispatched.calls[k].event, r))
           => Cardinality(executedSeen(r)) = 1

\* handler h was called with event e in the last step
calledWith(calls, h, e) ==
  \E k \in DOMAIN calls : calls[k].handler = h /\ calls[k].event = e

\* C28: a handler registered through MissionControl.onEvent is in the
\* registry of the orchestrator, the audit trail, the enforcement engine and
\* the approval workflow, and one whose unregister handle was called is in
\* none of them; whichever of the four emits an event, it is handed to the
\* handlers registered through MissionControl.onEvent for its kind and to no
\* handler that is not (any more) registered.
C28_SubscribedOnAllFour ==
  /\ [](\A c \in Components, type \in GovernanceEventType :
          Range(eventListeners[c][type]) = registered(type))
  /\ [][\A k \in DOMAIN emitted', h \in HandlerIds :
          calledWith(dispatched'.calls, h, emitted'[k])
            <=> h \in registered(emitted'[k].type)]_vars

\* the recorder was handed the enforcement engine's event of a successful
\* call, was unregistered, and the audit trail's event of the same call has
\* just been emitted and handed to nobody
C28_Witness ==
  \E r \in DOMAIN requests :
    /\ result[r].type = "success"
    /\ \E k \in DOMAIN events :
         /\ events[k].source = "enforcement"
         /\ events[k].type = "ACTION_EXECUTED"
         /\ events[k].about = requests[r].id
    /\ \A c \in Components : "recorder" \notin Range(eventListeners[c]["ACTION_EXECUTED"])
    /\ Len(emitted) = 1
    /\ emitted[1].source = "audit"
    /\ emitted[1].type = "ACTION_EXECUTED"
    /\ dispatched.calls = <<>>

\* the handlers in the enforcement engine's registry for the kind
engineHandlers(type) == Range(eventListeners["enforcement"][type])

\* the number of calls of handler h with event e in the last step
timesCalled(calls, h, e) ==
  Cardinality({k \in DOMAIN calls : calls[k].handler = h /\ calls[k].event = e})

\* C26: when a throwing handler is among the handlers registered for the
\* kind of an event postExecute emits, every other registered handler is
\* called once with the event (the listener unless a sibling deregisters
\* it), no exception leaves emitEvent, and postExecute marks the id executed
\* and completes as it does with no handler registered.
C26_ThrowingHandlerIsolated ==
  /\ [](~dispatched.uncaught)
  /\ [][\A k \in DOMAIN emitted' :
          LET e == emitted'[k]
              hs == engineHandlers(e.type)
          IN "thrower" \in hs =>
               /\ \A h \in hs \ {"listener"} : timesCalled(dispatched'.calls, h, e) = 1
               /\ ("listener" \in hs /\ "deregistrar" \notin hs)
                    => timesCalled(dispatched'.calls, "listener", e) = 1
               /\ ret'.op = "postExecute"
               /\ ret'.request.id = e.about
               /\ executedActions' = executedActions \cup {e.about}
               /\ UNCHANGED <<approvalQueue, timers, auditVars, wfVars, mcVars>>]_vars

\* the thrower was called before the listener in the dispatch of the event
\* of a postExecute call that completed
C26_Witness ==
  /\ ret.op = "postExecute"
  /\ ret.request.id \in executedActions
  /\ \E i, j \in DOMAIN dispatched.calls :
       /\ i < j
       /\ dispatched.calls[i].handler = "thrower"
       /\ dispatched.calls[j].handler = "listener"
  /\ ~dispatched.uncaught

\* C27: the handlers called with an event are the handlers that were
\* registered for its kind when it was emitted: a handler registered by a
\* handler during the dispatch is not called with the event in progress,
\* and a sibling deregistered during the dispatch still is.
C27_DispatchOverSnapshot ==
  [][\A k \in DOMAIN emitted' :
       {h \in HandlerIds : calledWith(dispatched'.calls, h, emitted'[k])}
         = engineHandlers(emitted'[k].type)]_vars

\* C31: a write a caller performs on an entry it obtained from record(),
\* getEntry() or getAllEntries() leaves the stored trail as it was, and with
\* it the value verifyChain() returns.
C31_ReturnedEntriesAreCopies ==
  [][ret'.op = "write" =>
       /\ entries' = entries
       /\ verifyChainValue(entries') = verifyChainValue(entries)]_vars

C33_UnregisteredApproverError ==
  (/\ ret.op = "approve"
   /\ ret.approvalId \in DOMAIN pendingApprovals
   /\ pendingApprovals[ret.approvalId].status = "PENDING"
   /\ ret.by \notin Range(registryIds(approvedApprovers)))
    => ret.error = "Unregistered"

\* C39: only a chosen approver changes a request: a request that is
\* APPROVED or REJECTED was approved or rejected by one of its chosen
\* approvers, every recorded decision is by a chosen approver, and an
\* approve or reject call by a registered approver who is not among the
\* request's approvers fails and leaves the request PENDING.
C39_OnlyChosenApproversDecide ==
  /\ \A a \in DOMAIN pendingApprovals :
       LET chosen == Range(pendingApprovals[a].approvers)
       IN /\ pendingApprovals[a].status = "APPROVED"
               => pendingApprovals[a].approvedBy \in chosen
          /\ pendingApprovals[a].status = "REJECTED"
               => pendingApprovals[a].rejectedBy \in chosen
          /\ decidedBy(approvalDecisions[a]) \subseteq chosen
  /\ (/\ ret.op \in {"approve", "reject"}
      /\ ret.approvalId \in DOMAIN pendingApprovals
      /\ ret.by \in Range(registryIds(approvedApprovers))
      /\ ret.by \notin Range(pendingApprovals[ret.approvalId].approvers))
       => ret.error # ""

\* C34: a submission made while the approver registry is empty fails with
\* the no-approvers error and leaves the workflow as it was: no approval
\* request or decision list is stored, the pending approvals are the same,
\* no escalation timer is scheduled and no event is emitted.
C34_EmptyRegistrySubmission ==
  [][\A r \in Requests :
       (/\ pc[r] = "preDone" /\ pc'[r] = "done"
        /\ ~pre[r].proceed /\ approvalIsPending(r)
        /\ approvedApprovers = <<>>)
         => /\ result'[r].type = "error"
            /\ result'[r].message = <<"No L2 approvers registered">>
            /\ pendingApprovals' = pendingApprovals
            /\ approvalDecisions' = approvalDecisions
            /\ getPendingApprovals(pendingApprovals') = getPendingApprovals(pendingApprovals)
            /\ timers' = timers
            /\ emitted' = <<>>
            /\ dispatched'.calls = <<>>]_vars

\* a submission has failed for want of approvers and the workflow holds no
\* request and no escalation timer
C34_Witness ==
  \E r \in DOMAIN requests :
    /\ pc[r] = "done"
    /\ result[r].type = "error"
    /\ result[r].message = <<"No L2 approvers registered">>
    /\ pendingApprovals = <<>>
    /\ \A k \in DOMAIN timers : timers[k].kind # "escalation"

\* C35: every approver in the registry has clearance L2 and no id is
\* registered twice; a step that adds to the registry stores one approver of
\* clearance L2 (a registration at another level leaves the registry as it
\* was), and a step that removes from it removes the approver of one id and
\* leaves the others and their order.
C35_RegistryHoldsL2Only ==
  /\ [](/\ \A i \in DOMAIN approvedApprovers : approvedApprovers[i].clearanceLevel = "L2"
        /\ \A i, j \in DOMAIN approvedApprovers :
             approvedApprovers[i].id = approvedApprovers[j].id => i = j)
  /\ [][LET before == Range(registryIds(approvedApprovers))
            after == Range(registryIds(approvedApprovers'))
        IN /\ Cardinality(after \ before) <= 1
           /\ Cardinality(before \ after) <= 1
           /\ after \ before # {} =>
                /\ before \subseteq after
                /\ \E id \in ApproverIds :
                     approvedApprovers' =
                       Append(approvedApprovers, [id |-> id, clearanceLevel |-> "L2"])
           /\ before \ after # {} =>
                approvedApprovers' =
                  SelectSeq(approvedApprovers, LAMBDA a : a.id \in after)]_vars

\* an approver chosen for a stored request has been unregistered while
\* another approver stays registered
C35_Witness ==
  /\ registryIds(approvedApprovers) = <<"approver-2">>
  /\ \E a \in DOMAIN pendingApprovals :
       "approver-1" \in Range(pendingApprovals[a].approvers)

\* C36: in a MissionControl constructed with requiredApprovers = n that has
\* at least n registered approvers, a request that is APPROVED has
\* affirmative decisions of at least n distinct approvers.
C36_RequiredApproversHonoured ==
  \A n \in RequiredApproversChoices :
    (/\ workflowConfig = workflowConfigOf(governanceConfigWith(n))
     /\ Len(approvedApprovers) >= n)
      => \A a \in DOMAIN pendingApprovals :
           pendingApprovals[a].status = "APPROVED"
             => Cardinality(decidedBy(approvalDecisions[a])) >= n

\* C37: an execute call that has settled with a success tuple or with an
\* error has appended exactly one audit entry for its action request, and
\* one that returned a pending reference has appended none.
C37_EveryOutcomeAudited ==
  \A r \in DOMAIN requests :
    pc[r] = "done" =>
      Cardinality(entriesOf(r)) =
        (IF result[r].type \in {"success", "error"} THEN 1 ELSE 0)

noTimerFired == Len(timers) = Len(approvalQueue) + Len(pendingApprovals)

\* C40: once the workflow request of an action request was approved or
\* rejected while no timer had fired, no handler registered through
\* MissionControl.onEvent is handed an approval-timeout event for that
\* action request.
C40_NoTimeoutAfterDecision ==
  [][\A k \in DOMAIN dispatched'.calls :
       dispatched'.calls[k].event.type = "APPROVAL_TIMEOUT" =>
         ~\E a \in DOMAIN pendingApprovals :
             /\ pendingApprovals[a].actionRequestId = dispatched'.calls[k].event.detail[1]
             /\ pendingApprovals[a].status \in {"APPROVED", "REJECTED"}
             /\ noTimerFired]_vars

====
